---- MODULE Spec2Model ----
(***************************************************************************)
(* Model of jug's distributed execution engine: the task graph             *)
(* (jug/task.py), the key-value store backends (jug/backends/              *)
(* redis_store.py, jug/backends/gcs_redis_store.py) and the commands of    *)
(* jug/jug.py (execute_loop, invalidate, cleanup).                         *)
(***************************************************************************)
EXTENDS Integers, Sequences, FiniteSets, TLC

(***************************************************************************)
(* Bounds of the model.                                                    *)
(***************************************************************************)
\* largest execute_nr_wait_cycles a worker is started with
MaxWaitCycles == 1

\* the worker processes and the store clients of the model
Workers == {1, 2}

\* _LOCKED of both key-value backends
_LOCKED == 1

(***************************************************************************)
(* Python values that cross the key-value service.  The service returns    *)
(* what was stored as a string; None is the reply for a missing key.       *)
(***************************************************************************)
PyNone == [type |-> "none", val |-> 0]
PyInt(n) == [type |-> "int", val |-> n]
PyStr(n) == [type |-> "str", val |-> n]

\* Python's == between two such values: values of different types differ
PyEq(a, b) == a.type = b.type /\ a.val = b.val

(***************************************************************************)
(* Arguments of a Task.  An argument is a constant, a Task of the          *)
(* registry (by position), a Tasklet (base, subscript), or a list, tuple   *)
(* or dict (its values) of arguments.                                      *)
(***************************************************************************)
ConstArg(c) == [kind |-> "const", ref |-> c, items |-> <<>>]
TaskArg(i) == [kind |-> "task", ref |-> i, items |-> <<>>]
ListArg(s) == [kind |-> "list", ref |-> 0, items |-> s]
TupleArg(s) == [kind |-> "tuple", ref |-> 0, items |-> s]
DictArg(s) == [kind |-> "dict", ref |-> 0, items |-> s]
\* Tasklet(base, _getitem(slice)), as built by TaskletMixin.__getitem__
TaskletArg(base, slice) == [kind |-> "tasklet", ref |-> 0, items |-> <<base, slice>>]

\* Task(f, *args, **kwargs): name is the qualified name of f, as characters
Task(name, args, kwargs) == [name |-> name, args |-> args, kwargs |-> kwargs]

(***************************************************************************)
(* The task registries (alltasks) the model is run on.                     *)
(***************************************************************************)
\* a; b(a); c(a[0]); d([b], k={x: c}): the diamond, with nested arguments
Diamond ==
    << Task(<<"m", ".", "a">>, <<>>, <<>>),
       Task(<<"m", ".", "b">>, <<TaskArg(1)>>, <<>>),
       Task(<<"m", ".", "c">>, <<TaskletArg(TaskArg(1), ConstArg(0))>>, <<>>),
       Task(<<"m", ".", "d">>, <<ListArg(<<TaskArg(2)>>)>>, <<DictArg(<<TaskArg(3)>>)>>) >>

\* w; v(w); u(v); f(w[u]): a Tasklet whose subscript is itself a Task
SliceChain ==
    << Task(<<"m", ".", "a">>, <<>>, <<>>),
       Task(<<"m", ".", "b">>, <<TaskArg(1)>>, <<>>),
       Task(<<"m", ".", "c">>, <<TaskArg(2)>>, <<>>),
       Task(<<"m", ".", "d">>, <<TaskletArg(TaskArg(1), TaskArg(3))>>, <<>>) >>

\* a; a again (same function, same arguments); b(a2, (a,))
Twins ==
    << Task(<<"m", ".", "a">>, <<>>, <<>>),
       Task(<<"m", ".", "a">>, <<>>, <<>>),
       Task(<<"m", ".", "b">>, <<TaskArg(2), TupleArg(<<TaskArg(1)>>)>>, <<>>) >>

\* a(o, [o]): an object passed as it is and a list, which value() copies
Mutable ==
    << Task(<<"m", ".", "a">>, <<ConstArg(0), ListArg(<<ConstArg(0)>>)>>, <<>>) >>

\* a; c; barrier(); b(value(a), value(c)): what the script builds while the
\* barrier is raised, and what it builds once a and c are loadable
BarrierHead ==
    << Task(<<"m", ".", "a">>, <<>>, <<>>),
       Task(<<"m", ".", "c">>, <<>>, <<>>) >>

BarrierFull ==
    << Task(<<"m", ".", "a">>, <<>>, <<>>),
       Task(<<"m", ".", "c">>, <<>>, <<>>),
       Task(<<"m", ".", "b">>, <<ConstArg(1), ConstArg(3)>>, <<>>) >>

\* a(o); c(o): two tasks that are handed the same object
Shared ==
    << Task(<<"m", ".", "a">>, <<ConstArg(0)>>, <<>>),
       Task(<<"m", ".", "c">>, <<ConstArg(0)>>, <<>>) >>

\* w; u; f(w[u]): the subscript Task is built before the Task that uses it
SliceHead ==
    << Task(<<"m", ".", "a">>, <<>>, <<>>),
       Task(<<"m", ".", "c">>, <<>>, <<>>),
       Task(<<"m", ".", "d">>, <<TaskletArg(TaskArg(1), TaskArg(2))>>, <<>>) >>

\* four functions of two modules whose names contain one another
Alike ==
    << Task(<<"m", ".", "a">>, <<>>, <<>>),
       Task(<<"m", ".", "a", "b">>, <<>>, <<>>),
       Task(<<"m", ".", "b">>, <<>>, <<>>),
       Task(<<"m", "m", ".", "b">>, <<>>, <<>>) >>

\* a; b; c(a): two independent tasks and a task that needs the first
Fork ==
    << Task(<<"m", ".", "a">>, <<>>, <<>>),
       Task(<<"m", ".", "b">>, <<>>, <<>>),
       Task(<<"m", ".", "c">>, <<TaskArg(1)>>, <<>>) >>

Graphs ==
    <<Diamond, SliceChain, Twins, Mutable, Shared, SliceHead, BarrierHead, BarrierFull,
      Alike, Fork>>

GraphIds == 1..Len(Graphs)

\* the scripts without a barrier that the commands are explored on
Scripts == {g \in GraphIds : Graphs[g] \in {Diamond, SliceChain, Twins}}

\* positions of the longest registry
TaskIds == 1..4

\* hashes are identified with the position of the first task that has them
Hashes == TaskIds

(***************************************************************************)
(* Small helpers on sequences.                                             *)
(***************************************************************************)
Range(s) == {s[i] : i \in 1..Len(s)}

RECURSIVE SetToSeq(_)
SetToSeq(S) ==
    IF S = {} THEN <<>>
    ELSE LET m == CHOOSE x \in S : \A y \in S : x <= y
         IN <<m>> \o SetToSeq(S \ {m})

RECURSIVE Flatten(_)
Flatten(ss) == IF ss = <<>> THEN <<>> ELSE Head(ss) \o Flatten(Tail(ss))

(***************************************************************************)
(* State.                                                                  *)
(***************************************************************************)
VARIABLES
    backend,      \* "redis" (redis_store) or "gcs" (gcs_redis_store)
    jugfile,      \* the script that was loaded, as a position in Graphs
    results,      \* key-value service: result key of a hash -> stored value
    blobs,        \* object store of the hybrid backend: blob of a hash
    locks,        \* key-value service: lock key of a hash -> stored value
    lockCreator,  \* history: the client whose get() created the lock entry
    options,      \* the options the command was started with
    active,       \* the worker processes that were started
    wk,           \* per worker: the locals of Executor.execute_loop
    executions,   \* history: per hash, how often a task function was called
    cmd           \* the store client / command process of the run

vars == <<backend, jugfile, results, blobs, locks, lockCreator, options,
          active, wk, executions, cmd>>


(***************************************************************************)
(* Task.hash: a digest of the bytes fed to one hash object: the name, then *)
(* every positional argument after its index, then every keyword argument  *)
(* after its key.  A list, tuple or dict feeds its kind and then its       *)
(* elements, each after its index or key, into the same hash object; a     *)
(* Task feeds its own digest, a Tasklet the digest of ("Tasklet", base,    *)
(* f), any other value its pickle.  The digest itself is modelled as       *)
(* collision free: the hash of a task is the position of the first task of *)
(* the registry that feeds the same bytes.                                 *)
(***************************************************************************)
RECURSIVE TaskHash(_, _), HashArg(_, _)
HashArg(tasks, a) ==
    IF a.kind = "task"
    THEN <<[tag |-> "hash", n |-> TaskHash(tasks, a.ref), sub |-> <<>>]>>
    ELSE IF a.kind = "const"
    THEN <<[tag |-> "pickle", n |-> a.ref, sub |-> <<>>]>>
    ELSE IF a.kind = "tasklet"
    THEN <<[tag |-> "digest", n |-> 0,
            sub |-> HashArg(tasks, a.items[1]) \o HashArg(tasks, a.items[2])]>>
    ELSE <<[tag |-> a.kind, n |-> 0, sub |-> <<>>]>>
         \o Flatten([k \in 1..Len(a.items) |->
                       <<[tag |-> "index", n |-> k - 1, sub |-> <<>>]>>
                       \o HashArg(tasks, a.items[k])])

_compute_set_hash(tasks, i) ==
    [name |-> tasks[i].name,
     bytes |-> Flatten([k \in 1..Len(tasks[i].args) |->
                          <<[tag |-> "index", n |-> k - 1, sub |-> <<>>]>>
                          \o HashArg(tasks, tasks[i].args[k])])
               \o Flatten([k \in 1..Len(tasks[i].kwargs) |->
                             <<[tag |-> "key", n |-> k, sub |-> <<>>]>>
                             \o HashArg(tasks, tasks[i].kwargs[k])])]

TaskHash(tasks, i) ==
    CHOOSE j \in 1..i :
        /\ _compute_set_hash(tasks, j) = _compute_set_hash(tasks, i)
        /\ \A k \in 1..(j-1) : _compute_set_hash(tasks, k) # _compute_set_hash(tasks, i)

(***************************************************************************)
(* Task.dependencies: the Tasks and Tasklets found in args and kwargs,     *)
(* descending into lists, tuples and the values of dicts (a work queue     *)
(* popped from its end).  Tasklet.dependencies yields the base only.       *)
(***************************************************************************)
IsTaskOrTasklet(a) == a.kind \in {"task", "tasklet"}

\* the containers an iteration over deps pushes on the queue, in order
Pushed(deps) ==
    LET idx == {k \in 1..Len(deps) : deps[k].kind \in {"list", "tuple", "dict"}}
    IN [n \in 1..Cardinality(idx) |-> deps[SetToSeq(idx)[n]].items]

RECURSIVE DrainQueue(_)
DrainQueue(queue) ==
    IF queue = <<>> THEN <<>>
    ELSE LET deps == queue[Len(queue)]
             rest == SubSeq(queue, 1, Len(queue) - 1)
         IN SelectSeq(deps, IsTaskOrTasklet) \o DrainQueue(rest \o Pushed(deps))

Task_dependencies(task) == DrainQueue(<<task.args, task.kwargs>>)

Tasklet_dependencies(a) == <<a.items[1]>>

\* the Tasks whose value() is demanded by value(a), in evaluation order;
\* _getitem.__call__ resolves the object, then the subscript
RECURSIVE value_tasks(_)
value_tasks(a) ==
    IF a.kind = "task" THEN <<a.ref>>
    ELSE IF a.kind = "const" THEN <<>>
    ELSE Flatten([k \in 1..Len(a.items) |-> value_tasks(a.items[k])])

\* Task._execute: the values demanded for the argument vector of a task
Task_execute_tasks(task) ==
    Flatten([k \in 1..Len(task.args) |-> value_tasks(task.args[k])])
    \o Flatten([k \in 1..Len(task.kwargs) |-> value_tasks(task.kwargs[k])])

\* Task.unload_recursive: the task and its dependency cone
RECURSIVE Task_unload_set(_, _), unload_dep(_, _)
unload_dep(tasks, a) ==
    IF a.kind = "task" THEN Task_unload_set(tasks, a.ref)
    ELSE unload_dep(tasks, Tasklet_dependencies(a)[1])

Task_unload_set(tasks, i) ==
    {i} \cup UNION {unload_dep(tasks, Task_dependencies(tasks[i])[k]) :
                      k \in 1..Len(Task_dependencies(tasks[i]))}

\* the registries' derived data, computed once per script
HashTable == [g \in GraphIds |-> [i \in 1..Len(Graphs[g]) |-> TaskHash(Graphs[g], i)]]

DepTable == [g \in GraphIds |-> [i \in 1..Len(Graphs[g]) |-> Task_dependencies(Graphs[g][i])]]

ExecTable == [g \in GraphIds |-> [i \in 1..Len(Graphs[g]) |-> Task_execute_tasks(Graphs[g][i])]]

UnloadTable == [g \in GraphIds |-> [i \in 1..Len(Graphs[g]) |-> Task_unload_set(Graphs[g], i)]]

\* task.alltasks after the script was loaded
alltasks == Graphs[jugfile]

NTasks == Len(alltasks)

TaskSet == 1..NTasks

hash(i) == HashTable[jugfile][i]

dependencies(i) == DepTable[jugfile][i]

execute_tasks(i) == ExecTable[jugfile][i]

unload_set(i) == UnloadTable[jugfile][i]

(***************************************************************************)
(* Store backends: redis_store and gcs_redis_store.  Each definition is    *)
(* one command sent to the key-value service or to the object store.       *)
(***************************************************************************)
\* a codec that writes the same bytes for every value
encode_constant(v) == PyStr(0)

\* encode / decode of the value codec, as far as the store is concerned
encode(v) == PyStr(v.val)

decode(s) == PyInt(s.val)

\* store.can_load(name): redis.exists on the result key, in both backends
can_load(h) == results[h] # PyNone

\* lock.is_locked() of the handle of hash h
is_locked(h) ==
    LET status == locks[h]
    IN IF backend = "redis"
       THEN status # PyNone /\ PyEq(status, PyInt(_LOCKED))
       ELSE status # PyNone

\* the value lock.get() leaves in the lock key when called by client c
LockAfterGet(c, h) ==
    IF backend = "redis" THEN PyStr(_LOCKED)
    ELSE IF locks[h] = PyNone THEN PyStr(c) ELSE locks[h]

\* a get() that reports success whatever the key held
LockGetResult_always(h) == TRUE

\* the result of lock.get(): GETSET found nothing / SET NX set the key
LockGetResult(h) == locks[h] = PyNone

\* a release() that leaves the lock key in place
release_keeps(h) == locks

\* lock.release(): DEL of the lock key
release(h) == [locks EXCEPT ![h] = PyNone]

\* store.load(name): the decoded entry, PyNone standing for a failed load
load(h) ==
    IF backend = "redis"
    THEN (IF results[h] = PyNone THEN PyNone ELSE decode(results[h]))
    ELSE (IF blobs[h] = PyNone THEN PyNone ELSE decode(blobs[h]))

(***************************************************************************)
(* In-memory results (Task._result) and value().                           *)
(***************************************************************************)
\* a Task object without the _result attribute
NoAttr == [type |-> "unset", val |-> 0]

NoResults == [i \in TaskIds |-> NoAttr]

\* Task.can_load / Tasklet.can_load of a dependency
RECURSIVE dep_can_load(_)
dep_can_load(a) ==
    IF a.kind = "task" THEN can_load(hash(a.ref)) ELSE dep_can_load(a.items[1])

\* hasattr(dep, '_result'): a Tasklet never has the attribute
has_result(mem, a) == a.kind = "task" /\ mem[a.ref] # NoAttr

\* Task.can_run
can_run(mem, i) ==
    \A k \in 1..Len(dependencies(i)) :
        LET dep == dependencies(i)[k]
        IN ~(~has_result(mem, dep) /\ ~dep_can_load(dep))

\* Task.result over a sequence of tasks: load() each one that is not in
\* memory; load() asserts can_load and stops the evaluation when it fails
RECURSIVE load_all(_, _)
load_all(ts, mem) ==
    IF ts = <<>> THEN [ok |-> TRUE, mem |-> mem]
    ELSE LET j == Head(ts)
         IN IF mem[j] # NoAttr THEN load_all(Tail(ts), mem)
            ELSE IF can_load(hash(j)) /\ load(hash(j)) # PyNone
                 THEN load_all(Tail(ts), [mem EXCEPT ![j] = load(hash(j))])
                 ELSE [ok |-> FALSE, mem |-> mem]

\* the user functions: deterministic in the name and the argument values
Alphabet == <<"a", "b", "c", "d">>

NameCode(name) == CHOOSE k \in 1..Len(Alphabet) : Alphabet[k] = name[Len(name)]

RECURSIVE value(_, _)
value(a, mem) ==
    IF a.kind = "task" THEN mem[a.ref].val
    ELSE IF a.kind = "const" THEN a.ref
    ELSE IF a.kind = "tasklet"
         THEN value(a.items[1], mem) + value(a.items[2], mem) + 1
    ELSE IF a.items = <<>> THEN 0
    ELSE value(Head(a.items), mem) + value([a EXCEPT !.items = Tail(a.items)], mem)

_execute(i, mem) ==
    PyInt(NameCode(alltasks[i].name)
          + 2 * value(ListArg(alltasks[i].args), mem)
          + 3 * value(ListArg(alltasks[i].kwargs), mem))

\* Task.unload_recursive
unload_recursive(i, mem) ==
    [j \in TaskIds |-> IF j \in unload_set(i) THEN NoAttr ELSE mem[j]]

(***************************************************************************)
(* Executor.execute_loop, one worker process per element of active.  A     *)
(* step is one round trip to the store, or the local code between two.     *)
(***************************************************************************)
Append2(s, e) == s \o <<e>>

\* the locals of execute_loop on entry (tasks_current = self.tasks)
InitWorker ==
    [pc |-> "loop", tasks_current |-> SetToSeq(TaskSet),
     tasks_waiting |-> <<>>, tasks_ready |-> <<>>, tasks_locked |-> <<>>,
     tasks_executed |-> <<>>, tasks_total_executed |-> <<>>,
     wait_cycles |-> options.execute_nr_wait_cycles,
     i |-> 1, locked |-> FALSE, mem |-> NoResults, mutated |-> 0, heap |-> {},
     raising |-> "", value_failed |-> FALSE, ran |-> <<>>, failed |-> {},
     faulted |-> {},
     check |-> "none", passes |-> 0,
     exit |-> "", signal_at |-> "", ret |-> <<>>]

Set(w, r) == wk' = [wk EXCEPT ![w] = r]

StoreUnchanged == UNCHANGED <<results, blobs, locks, lockCreator>>

ConfigUnchanged == UNCHANGED <<backend, jugfile, options, active, cmd>>

\* while tasks_current: (line 151) with the reset of the pass lists; the
\* tasks_finished list, which is only logged, is left out; passes counts
\* the executions of the loop body
LoopTop(r) ==
    IF r.tasks_current = <<>>
    THEN [r EXCEPT !.pc = "done", !.exit = "return", !.ret = r.tasks_total_executed]
    ELSE [r EXCEPT !.pc = "classify", !.i = 1, !.passes = @ + 1,
                   !.tasks_waiting = <<>>, !.tasks_ready = <<>>,
                   !.tasks_locked = <<>>, !.tasks_executed = <<>>]

\* entry of execute_loop (lines 145-155)
BeginPass(w) ==
    LET r == wk[w] IN
    /\ w \in active /\ r.pc = "loop"
    /\ Set(w, LoopTop(r))
    /\ StoreUnchanged /\ ConfigUnchanged /\ UNCHANGED executions

\* the classification loop moves to the next task, or to the ready loop
NextClassify(r) ==
    IF r.i < Len(r.tasks_current)
    THEN [r EXCEPT !.pc = "classify", !.i = r.i + 1]
    ELSE [r EXCEPT !.pc = IF r.tasks_ready = <<>> THEN "pass_end" ELSE "ready_can_load",
                   !.i = 1]

\* the classification of one task of the frontier (lines 157-165): the
\* reads of can_load, is_locked and can_run
Classify(w) ==
    LET r == wk[w]
        t == r.tasks_current[r.i] IN
    /\ w \in active /\ r.pc = "classify"
    /\ IF can_load(hash(t))
       THEN Set(w, NextClassify(r))
       ELSE IF is_locked(hash(t))
       THEN Set(w, NextClassify([r EXCEPT !.tasks_locked = Append2(@, t)]))
       ELSE IF can_run(r.mem, t)
       THEN Set(w, NextClassify([r EXCEPT !.tasks_ready = Append2(@, t)]))
       ELSE Set(w, NextClassify([r EXCEPT !.tasks_waiting = Append2(@, t)]))
    /\ StoreUnchanged /\ ConfigUnchanged /\ UNCHANGED executions

\* the ready loop moves to the next ready task, or the pass ends
NextReady(r) ==
    IF r.i < Len(r.tasks_ready)
    THEN [r EXCEPT !.pc = "ready_can_load", !.i = r.i + 1, !.locked = FALSE,
                   !.mutated = 0, !.check = "none"]
    ELSE [r EXCEPT !.pc = "pass_end", !.i = 1, !.locked = FALSE,
                   !.mutated = 0, !.check = "none"]

\* if t.can_load(): tasks_finished.append(t); continue  (lines 182-184)
ReadyCanLoad(w) ==
    LET r == wk[w]
        t == r.tasks_ready[r.i] IN
    /\ w \in active /\ r.pc = "ready_can_load"
    /\ IF can_load(hash(t))
       THEN Set(w, NextReady(r))
       ELSE Set(w, [r EXCEPT !.pc = "lock", !.locked = FALSE])
    /\ StoreUnchanged /\ ConfigUnchanged /\ UNCHANGED executions

\* locked = t.lock()  (line 188; Task.lock, redis_lock.get)
Lock(w) ==
    LET r == wk[w]
        t == r.tasks_ready[r.i]
        h == hash(t) IN
    /\ w \in active /\ r.pc = "lock"
    /\ locks' = [locks EXCEPT ![h] = LockAfterGet(w, h)]
    /\ lockCreator' = [lockCreator EXCEPT ![h] = IF locks[h] = PyNone THEN w ELSE @]
    /\ Set(w, [r EXCEPT !.pc = "locked_can_load", !.locked = LockGetResult(h)])
    /\ UNCHANGED <<results, blobs, executions>> /\ ConfigUnchanged

\* the re-check with the lock attempted  (lines 190-195)
LockedCanLoad(w) ==
    LET r == wk[w]
        t == r.tasks_ready[r.i] IN
    /\ w \in active /\ r.pc = "locked_can_load"
    /\ IF can_load(hash(t))
       THEN Set(w, [r EXCEPT !.pc = "finally"])
       ELSE IF ~r.locked
            THEN Set(w, [r EXCEPT !.pc = "finally", !.tasks_locked = Append2(@, t)])
            ELSE Set(w, [r EXCEPT !.pc = "run"])
    /\ StoreUnchanged /\ ConfigUnchanged /\ UNCHANGED executions

\* the registry as the objects of a worker process stand: heap holds the
\* objects that task functions have changed in place.  value() hands over
\* an object of another type as it is (task.py 520-521), so a function can
\* change it; equal constants of one script are one object
RECURSIVE in_place(_, _)
in_place(a, heap) ==
    IF a.kind = "const"
    THEN (IF a.ref \in heap THEN ConstArg(a.ref + 1) ELSE a)
    ELSE IF a.kind = "task" THEN a
    ELSE [a EXCEPT !.items = [k \in 1..Len(a.items) |-> in_place(a.items[k], heap)]]

Mutated(tasks, heap) ==
    [t \in 1..Len(tasks) |->
        [tasks[t] EXCEPT
            !.args = [k \in 1..Len(tasks[t].args) |-> in_place(tasks[t].args[k], heap)],
            !.kwargs = [k \in 1..Len(tasks[t].kwargs) |-> in_place(tasks[t].kwargs[k], heap)]]]

\* Task._check_hash: self.hash() != self._compute_set_hash(), the hash
\* having been memoized when the script was loaded
_check_hash(t, heap) ==
    _compute_set_hash(alltasks, t) # _compute_set_hash(Mutated(alltasks, heap), t)

\* an execute_loop that keeps the task of a caught exception on the frontier
Caught_requeued(r, exc) ==
    [r EXCEPT !.pc = "finally",
              !.raising = IF options.execute_keep_going THEN "" ELSE exc,
              !.tasks_locked = IF options.execute_keep_going
                               THEN Append(@, r.tasks_ready[r.i]) ELSE @]

\* what execute_task does with an exception of class Exception
Caught(r, exc) ==
    [r EXCEPT !.pc = "finally",
              !.raising = IF options.execute_keep_going THEN "" ELSE exc]

\* execute_task -> Task.run: assert can_run, the debug-mode hash check
\* (line 155), then the argument values (Task._execute), up to the call of
\* the function
RunStart(w) ==
    LET r == wk[w]
        t == r.tasks_ready[r.i]
        got == load_all(execute_tasks(t), r.mem) IN
    /\ w \in active /\ r.pc = "run"
    /\ IF ~can_run(r.mem, t)
       THEN /\ Set(w, Caught(r, "AssertionError"))
            /\ UNCHANGED executions
       ELSE IF options.debug /\ _check_hash(t, r.heap)
       THEN /\ Set(w, Caught([r EXCEPT !.mutated = 0, !.check = "failed"],
                             "RuntimeError"))
            /\ UNCHANGED executions
       ELSE IF ~got.ok
       THEN /\ Set(w, Caught([r EXCEPT !.mem = got.mem, !.value_failed = TRUE],
                             "AssertionError"))
            /\ UNCHANGED executions
       ELSE /\ Set(w, [r EXCEPT !.pc = "running", !.mem = got.mem,
                                 !.mutated = 0, !.check = "none"])
            /\ executions' = [executions EXCEPT ![hash(t)] = @ + 1]
    /\ StoreUnchanged /\ ConfigUnchanged

\* the function returns: self._result = self._execute()
RunReturn(w) ==
    LET r == wk[w]
        t == r.tasks_ready[r.i] IN
    /\ w \in active /\ r.pc = "running"
    /\ Set(w, [r EXCEPT !.pc = "dump", !.mem[t] = _execute(t, r.mem),
                         !.ran = Append2(@, t)])
    /\ StoreUnchanged /\ ConfigUnchanged /\ UNCHANGED executions

\* after store.dump: the debug-mode hash check, aggressive unload and
\* tasks_executed.append(t)  (Task.run 160-161, execute_task 225-228)
AfterDump(r, t) ==
    IF options.debug /\ _check_hash(t, r.heap)
    THEN Caught([r EXCEPT !.check = "failed"], "RuntimeError")
    ELSE [r EXCEPT !.pc = "finally",
                   !.check = IF options.debug THEN "passed" ELSE "none",
                   !.mem = IF options.aggressive_unload
                           THEN unload_recursive(t, r.mem) ELSE r.mem,
                   !.tasks_executed = Append2(@, t)]

\* store.dump of redis_store: SET of the result key
DumpRedis(w) ==
    LET r == wk[w]
        t == r.tasks_ready[r.i] IN
    /\ w \in active /\ r.pc = "dump" /\ backend = "redis"
    /\ results' = [results EXCEPT ![hash(t)] = encode(r.mem[t])]
    /\ Set(w, AfterDump(r, t))
    /\ UNCHANGED <<blobs, locks, lockCreator, executions>> /\ ConfigUnchanged

\* store.dump of gcs_redis_store, first half: upload of the blob
DumpBlob(w) ==
    LET r == wk[w]
        t == r.tasks_ready[r.i] IN
    /\ w \in active /\ r.pc = "dump" /\ backend = "gcs"
    /\ blobs' = [blobs EXCEPT ![hash(t)] = encode(r.mem[t])]
    /\ Set(w, [r EXCEPT !.pc = "dump_key"])
    /\ UNCHANGED <<results, locks, lockCreator, executions>> /\ ConfigUnchanged

\* store.dump of gcs_redis_store, second half: SET of the result key
DumpKey(w) ==
    LET r == wk[w]
        t == r.tasks_ready[r.i] IN
    /\ w \in active /\ r.pc = "dump_key"
    /\ results' = [results EXCEPT ![hash(t)] = PyStr(hash(t))]
    /\ Set(w, AfterDump(r, t))
    /\ UNCHANGED <<blobs, locks, lockCreator, executions>> /\ ConfigUnchanged

\* finally: if locked: t.unlock()  (lines 202-204), then the exception
\* leaves execute_loop or the loop goes on
Finally(w) ==
    LET r == wk[w]
        t == r.tasks_ready[r.i]
        h == hash(t) IN
    /\ w \in active /\ r.pc = "finally"
    /\ IF r.locked
       THEN /\ locks' = release(h)
            /\ lockCreator' = [lockCreator EXCEPT ![h] = IF locks'[h] = PyNone THEN 0 ELSE @]
       ELSE UNCHANGED <<locks, lockCreator>>
    /\ IF r.raising # ""
       THEN Set(w, [r EXCEPT !.pc = "done", !.exit = r.raising, !.locked = FALSE])
       ELSE Set(w, NextReady(r))
    /\ UNCHANGED <<results, blobs, executions>> /\ ConfigUnchanged

\* a sleep that leaves the counter as it is
sleep_uncounted(r) == r

\* wait_cycles -= 1, then sleep  (lines 210-212)
sleep(r) == [r EXCEPT !.wait_cycles = @ - 1]

\* lines 206-216: the next frontier and the wait cycle of a stalled pass,
\* then the loop test of the next pass
EndPass(w) ==
    LET r == wk[w]
        current == r.tasks_waiting \o r.tasks_locked
        total == r.tasks_total_executed \o r.tasks_executed
        r1 == [r EXCEPT !.tasks_total_executed = total, !.tasks_current = current] IN
    /\ w \in active /\ r.pc = "pass_end"
    /\ IF current # <<>> /\ r.tasks_executed = <<>>
       THEN IF r.wait_cycles > 0
            THEN Set(w, LoopTop(sleep(r1)))
            ELSE Set(w, [r1 EXCEPT !.pc = "done", !.exit = "return",
                                   !.ret = r.tasks_executed])
       ELSE Set(w, LoopTop(r1))
    /\ StoreUnchanged /\ ConfigUnchanged /\ UNCHANGED executions

(***************************************************************************)
(* The execute command: workers over one registry and one shared store,    *)
(* the task functions all returning, no removal command running.           *)
(***************************************************************************)
EmptyStore == [h \in Hashes |-> PyNone]

NoCreator == [h \in Hashes |-> 0]

IdleCmd ==
    [pc |-> "idle", name |-> "", client |-> 0, h |-> 0, result |-> FALSE,
     registry |-> {}, raised |-> "", holders |-> [h \in Hashes |-> {}],
     pattern |-> <<>>, was_locked |-> FALSE, had_locks |-> FALSE,
     before_results |-> EmptyStore, before_blobs |-> EmptyStore,
     syncing |-> 0, current_blobs |-> {}, synced |-> FALSE,
     value |-> PyNone, dumped |-> {}, counted |-> {}]

ExecOptions ==
    [execute_nr_wait_cycles : 0..MaxWaitCycles, execute_keep_going : BOOLEAN,
     aggressive_unload : BOOLEAN, debug : {FALSE}]

\* the runs explored with more than one worker: the diamond and the
\* subscript chain on redis_store, the twins on both backends
PairRun ==
    /\ ~options.aggressive_unload
    /\ options.execute_keep_going => Graphs[jugfile] = SliceChain
    /\ backend = "gcs" => Graphs[jugfile] = Twins

InitExec ==
    /\ backend \in {"redis", "gcs"}
    /\ jugfile \in Scripts
    /\ results = EmptyStore /\ blobs = EmptyStore
    /\ locks = EmptyStore /\ lockCreator = NoCreator
    /\ options \in ExecOptions
    /\ active \in {{1}, Workers}
    /\ Cardinality(active) > 1 => PairRun
    /\ wk = [w \in Workers |-> InitWorker]
    /\ executions = [h \in Hashes |-> 0]
    /\ cmd = IdleCmd

WorkerStep(w) ==
    \/ BeginPass(w)
    \/ Classify(w)
    \/ ReadyCanLoad(w)
    \/ Lock(w)
    \/ LockedCanLoad(w)
    \/ RunStart(w)
    \/ RunReturn(w)
    \/ DumpRedis(w)
    \/ DumpBlob(w)
    \/ DumpKey(w)
    \/ Finally(w)
    \/ EndPass(w)

NextExec == \E w \in Workers : WorkerStep(w)

SpecExec == InitExec /\ [][NextExec]_vars

\* every started worker keeps taking steps until its execute_loop is left
FairExec == SpecExec /\ \A w \in Workers : WF_vars(WorkerStep(w))

(***************************************************************************)
(* The execute command with failures: a task function that raises, a task  *)
(* function that changes one of its arguments in place (found by the hash  *)
(* checks of debug mode), and SIGTERM, whose handler _sigterm raises       *)
(* SystemExit at the point the worker has reached.  The registries Mutable *)
(* and Shared are added to the scripts: their tasks have an argument that  *)
(* the function can change in place; so is SliceHead, whose last task is   *)
(* classified after the task of its subscript was attempted.               *)
(***************************************************************************)
\* the task function raises an exception
RunRaise(w) ==
    LET r == wk[w] IN
    /\ w \in active /\ r.pc = "running"
    /\ Set(w, Caught([r EXCEPT !.failed = @ \cup {r.tasks_ready[r.i]}], "Exception"))
    /\ StoreUnchanged /\ ConfigUnchanged /\ UNCHANGED executions

\* the task function returns after changing one of its arguments in place
RunMutate(w) ==
    LET r == wk[w]
        t == r.tasks_ready[r.i] IN
    /\ w \in active /\ r.pc = "running"
    /\ \E k \in 1..Len(alltasks[t].args) :
          Set(w, [r EXCEPT !.pc = "dump", !.mem[t] = _execute(t, r.mem),
                           !.ran = Append2(@, t), !.mutated = k,
                           !.heap = IF alltasks[t].args[k].kind = "const"
                                    THEN @ \cup {alltasks[t].args[k].ref} ELSE @])
    /\ StoreUnchanged /\ ConfigUnchanged /\ UNCHANGED executions

\* the positions of execute_loop inside try: ... finally: (lines 187-204)
\* at which the finally clause is still to be entered
InTry == {"locked_can_load", "run", "running", "dump", "dump_key"}

\* SIGTERM: SystemExit is not caught by execute_task; raised inside the
\* try it passes through the finally clause, raised before the try or
\* within the finally clause (before the unlock) it leaves directly
Sigterm(w) ==
    LET r == wk[w] IN
    /\ w \in active /\ r.pc # "done"
    /\ IF r.pc \in InTry
       THEN Set(w, [r EXCEPT !.pc = "finally", !.raising = "SystemExit",
                             !.signal_at = r.pc])
       ELSE Set(w, [r EXCEPT !.pc = "done", !.exit = "SystemExit",
                             !.signal_at = r.pc])
    /\ StoreUnchanged /\ ConfigUnchanged /\ UNCHANGED executions

FaultOptions ==
    [execute_nr_wait_cycles : 0..MaxWaitCycles, execute_keep_going : BOOLEAN,
     aggressive_unload : {FALSE}, debug : BOOLEAN]

\* the runs with failures explored with more than one worker
PairFaultRun ==
    /\ Graphs[jugfile] = Twins /\ backend = "redis"
    /\ options.execute_nr_wait_cycles = 0
    /\ ~options.execute_keep_going /\ options.debug

InitFault ==
    /\ backend \in {"redis", "gcs"}
    /\ jugfile \in Scripts \cup {g \in GraphIds : Graphs[g] \in {Mutable, Shared, SliceHead}}
    /\ results = EmptyStore /\ blobs = EmptyStore
    /\ locks = EmptyStore /\ lockCreator = NoCreator
    /\ options \in FaultOptions
    /\ active \in {{1}, Workers}
    /\ Cardinality(active) > 1 => PairFaultRun
    /\ wk = [w \in Workers |-> InitWorker]
    /\ executions = [h \in Hashes |-> 0]
    /\ cmd = IdleCmd

FaultStep(w) == RunRaise(w) \/ RunMutate(w) \/ Sigterm(w)

NextFault == \E w \in Workers : WorkerStep(w) \/ FaultStep(w)

SpecFault == InitFault /\ [][NextFault]_vars

(***************************************************************************)
(* The execute command on a store that fails: a command sent to the store  *)
(* raises (a connection error, or the assert of Task.load on an entry that *)
(* is gone) instead of answering.                                          *)
(***************************************************************************)
\* the positions of execute_loop at which the next statement calls the
\* store: outside the try (lines 158-160, 182), inside the try but outside
\* execute_task (lines 188-190), and inside execute_task (Task.run)
StoreCallsOutside == {"classify", "ready_can_load"}

StoreCallsInTry == {"lock", "locked_can_load"}

StoreCallsInTask == {"run", "dump", "dump_key"}

\* the task the worker is asking the store about
Asked(r) ==
    IF r.pc = "classify" THEN r.tasks_current[r.i] ELSE r.tasks_ready[r.i]

\* a store call of the worker raises: execute_loop has no handler of its
\* own, so outside execute_task the exception leaves execute_loop, through
\* the finally clause if raised inside the try; inside execute_task it is
\* handled like the exception of a task function
StoreRaise(w) ==
    LET r == wk[w]
        r1 == [r EXCEPT !.faulted = @ \cup {Asked(r)}] IN
    /\ w \in active
    /\ r.pc \in StoreCallsOutside \cup StoreCallsInTry \cup StoreCallsInTask
    /\ IF r.pc \in StoreCallsOutside
       THEN Set(w, [r1 EXCEPT !.pc = "done", !.exit = "StoreError"])
       ELSE IF r.pc \in StoreCallsInTry
       THEN Set(w, [r1 EXCEPT !.pc = "finally", !.raising = "StoreError"])
       ELSE Set(w, Caught(r1, "StoreError"))
    /\ StoreUnchanged /\ ConfigUnchanged /\ UNCHANGED executions

NextStoreFault == \E w \in Workers : WorkerStep(w) \/ StoreRaise(w)

SpecStoreFault == InitFault /\ [][NextStoreFault]_vars

(***************************************************************************)
(* The execute command on a script with a barrier:                         *)
(*     a = Task(m.a); c = Task(m.c); barrier(); b = Task(m.b, value(a),    *)
(*     value(c))                                                           *)
(* barrier() raises BarrierError while a task built so far has no result;  *)
(* init catches it and sets __jug__hasbarrier__.  cmd holds the locals of  *)
(* execute(); worker 1 is its Executor, which does not exist before the    *)
(* first load; a second worker process takes and gives back locks.         *)
(***************************************************************************)
GraphId(reg) == CHOOSE g \in GraphIds : Graphs[g] = reg

\* the locals of execute() before its while loop (lines 275-280)
ExecuteCmd ==
    [pc |-> "load", name |-> "execute",
     wait_cycles |-> options.execute_nr_wait_cycles, has_barrier |-> FALSE,
     loads |-> 0, passes |-> 0]

\* barrier(): true when BarrierError is raised at the barrier of the script
barrier ==
    /\ Graphs[jugfile] \in {BarrierHead, BarrierFull}
    /\ \E t \in 1..Len(BarrierHead) : ~can_load(HashTable[GraphId(BarrierHead)][t])

\* init(jugfile): the registry the script leaves behind; a script without
\* barrier builds the same registry at every load
init ==
    IF Graphs[jugfile] \notin {BarrierHead, BarrierFull} THEN jugfile
    ELSE IF barrier THEN GraphId(BarrierHead) ELSE GraphId(BarrierFull)

\* while wait_cycles > 0: del tasks[:]; init(...); Executor(...) up to the
\* call of execute_loop (lines 282-300); the else branch of the while
ExecuteLoad ==
    /\ cmd.pc = "load"
    /\ IF cmd.wait_cycles > 0
       THEN /\ jugfile' = init
            /\ cmd' = [cmd EXCEPT !.pc = "loop", !.has_barrier = barrier,
                                  !.loads = @ + 1]
            /\ Set(1, [InitWorker EXCEPT
                          !.tasks_current = SetToSeq(1..Len(Graphs[init])),
                          !.wait_cycles = IF barrier THEN 0
                                          ELSE options.execute_nr_wait_cycles])
       ELSE /\ cmd' = [cmd EXCEPT !.pc = "exited"]
            /\ UNCHANGED <<jugfile, wk>>
    /\ StoreUnchanged /\ UNCHANGED <<backend, options, active, executions>>

\* execute_loop has returned: the break without barrier, the wait cycle of
\* a barrier pass that executed nothing (lines 302-313)
ExecuteAfterLoop ==
    /\ cmd.pc = "loop" /\ wk[1].pc = "done" /\ wk[1].exit = "return"
    /\ cmd' = [cmd EXCEPT
                 !.passes = @ + 1,
                 !.pc = IF cmd.has_barrier THEN "load" ELSE "exited",
                 !.wait_cycles = IF cmd.has_barrier /\ wk[1].ret = <<>>
                                 THEN @ - 1 ELSE @]
    /\ StoreUnchanged
    /\ UNCHANGED <<backend, jugfile, options, active, wk, executions>>

\* the other worker process takes the lock of a task that has no result
OtherLock(h) ==
    /\ h \in 1..Len(BarrierFull)
    /\ locks[h] = PyNone /\ ~can_load(h)
    /\ locks' = [locks EXCEPT ![h] = LockAfterGet(2, h)]
    /\ lockCreator' = [lockCreator EXCEPT ![h] = 2]
    /\ UNCHANGED <<results, blobs, executions, wk>> /\ ConfigUnchanged

\* the other worker process gives the lock back without a result
OtherUnlock(h) ==
    /\ lockCreator[h] = 2
    /\ locks' = release(h)
    /\ lockCreator' = [lockCreator EXCEPT ![h] = 0]
    /\ UNCHANGED <<results, blobs, executions, wk>> /\ ConfigUnchanged

BarrierOptions ==
    [execute_nr_wait_cycles : 0..MaxWaitCycles, execute_keep_going : {FALSE},
     aggressive_unload : {FALSE}, debug : {FALSE}]

InitBarrier ==
    /\ backend \in {"redis", "gcs"}
    /\ jugfile = GraphId(BarrierHead)
    /\ results = EmptyStore /\ blobs = EmptyStore
    /\ locks = EmptyStore /\ lockCreator = NoCreator
    /\ options \in BarrierOptions
    /\ active = {1}
    /\ wk = [w \in Workers |-> [InitWorker EXCEPT !.pc = "unborn"]]
    /\ executions = [h \in Hashes |-> 0]
    /\ cmd = ExecuteCmd

NextBarrier ==
    \/ ExecuteLoad
    \/ WorkerStep(1)
    \/ ExecuteAfterLoop
    \/ \E h \in Hashes : OtherLock(h) \/ OtherUnlock(h)

SpecBarrier == InitBarrier /\ [][NextBarrier]_vars

(***************************************************************************)
(* The store interface and the commands cleanup and invalidate, called     *)
(* one at a time by the clients of one store.  cmd records the last call:  *)
(* its name and arguments, its result, and the entries it found.           *)
(***************************************************************************)
\* a Task object of the registry, as a Python value
PyTask(t) == [type |-> "Task", val |-> t]

\* redis_store.redis_key: key_type + ":" + self.prefix + name, which raises
\* TypeError unless name is a string
redis_key(name) ==
    IF name.type = "str" THEN [type |-> "key", val |-> name.val]
    ELSE [type |-> "TypeError", val |-> 0]

\* store.list(): the names under the result prefix, the prefix cut off
list == {PyStr(h) : h \in {x \in Hashes : results[x] # PyNone}}

\* store.listlocks(): redis_store builds its prefix with
\* redis_key("result", "") (line 153), gcs_redis_store with
\* redis_lock_key("") (line 196)
listlocks ==
    IF backend = "redis" THEN list
    ELSE {PyStr(h) : h \in {x \in Hashes : locks[x] # PyNone}}

\* redis_store.cleanup(active): existing.remove(self._resultname(act)) for
\* every element of active, then DEL of what is left of existing.  With a
\* Task as act the key cannot be built (TypeError); a key is no element of
\* existing, and list.remove then raises ValueError, which is not caught
redis_cleanup(act) ==
    IF \E a \in act : redis_key(a).type = "TypeError"
    THEN [raised |-> "TypeError", results |-> results, blobs |-> blobs]
    ELSE IF \E a \in act : redis_key(a) \notin list
    THEN [raised |-> "ValueError", results |-> results, blobs |-> blobs]
    ELSE [raised |-> "",
          results |-> [h \in Hashes |-> IF PyStr(h) \in list THEN PyNone ELSE results[h]],
          blobs |-> blobs]

\* gcs_redis_store.sync(), first half (lines 152-153): the listing of the
\* blobs of the bucket
list_blobs == {h \in Hashes : blobs[h] # PyNone}

\* gcs_redis_store.sync(), second half (line 166): one script that deletes
\* every result key and sets one key per blob that was listed
sync(current_blobs) ==
    [h \in Hashes |-> IF h \in current_blobs THEN PyStr(h) ELSE PyNone]

\* gcs_redis_store.cleanup(active) once sync() has returned (lines
\* 177-180): remove() of every listed name that is not an element of active
gcs_cleanup(act) ==
    LET existing == list
        inactive == existing \ act
    IN [raised |-> "",
        results |-> [h \in Hashes |-> IF PyStr(h) \in inactive THEN PyNone ELSE results[h]],
        blobs |-> [h \in Hashes |-> IF PyStr(h) \in inactive THEN PyNone ELSE blobs[h]]]

\* a remove_locks() that deletes nothing
remove_locks_nothing == locks

\* store.remove_locks(): DEL of every key found under the lock prefix
remove_locks == [h \in Hashes |-> PyNone]

\* the hashes of the tasks of a registry
HashesOf(reg) == {hash(t) : t \in reg}

NoHolders == [h \in Hashes |-> {}]

Call(name, c, h, result, reg, raised, holders) ==
    [pc |-> "idle", name |-> name, client |-> c, h |-> h, result |-> result,
     registry |-> reg, raised |-> raised, holders |-> holders, pattern |-> <<>>,
     was_locked |-> IF h \in Hashes THEN locks[h] # PyNone ELSE FALSE,
     had_locks |-> \E x \in Hashes : locks[x] # PyNone,
     before_results |-> IF name \in {"cleanup", "remove_locks", "invalidate", "invalidate_dry_run"}
                        THEN results ELSE EmptyStore,
     before_blobs |-> IF name \in {"cleanup", "remove_locks", "invalidate", "invalidate_dry_run"}
                      THEN blobs ELSE EmptyStore,
     syncing |-> cmd.syncing, current_blobs |-> cmd.current_blobs,
     synced |-> cmd.synced, value |-> PyNone, dumped |-> cmd.dumped,
     counted |-> {}]

StoreFrame == UNCHANGED <<backend, jugfile, options, active, wk, executions>>

\* the values the clients dump
DumpValues == {1, 2}

\* store.dump(object, name)
StoreDump(c, h, v) ==
    /\ IF backend = "redis"
       THEN /\ results' = [results EXCEPT ![h] = encode(PyInt(v))]
            /\ UNCHANGED blobs
       ELSE /\ blobs' = [blobs EXCEPT ![h] = encode(PyInt(v))]
            /\ results' = [results EXCEPT ![h] = PyStr(h)]
    /\ cmd' = [Call("dump", c, h, TRUE, {}, "", cmd.holders)
                 EXCEPT !.value = PyInt(v), !.dumped = @ \cup {h}]
    /\ UNCHANGED <<locks, lockCreator>> /\ StoreFrame

\* store.remove(name)
StoreRemove(c, h) ==
    /\ results' = [results EXCEPT ![h] = PyNone]
    /\ blobs' = [blobs EXCEPT ![h] = PyNone]
    /\ cmd' = Call("remove", c, h, results[h] # PyNone, {}, "", cmd.holders)
    /\ UNCHANGED <<locks, lockCreator>> /\ StoreFrame

\* store.getlock(name).get()
StoreGet(c, h) ==
    /\ locks' = [locks EXCEPT ![h] = LockAfterGet(c, h)]
    /\ lockCreator' = [lockCreator EXCEPT ![h] = IF locks[h] = PyNone THEN c ELSE @]
    /\ cmd' = Call("get", c, h, LockGetResult(h), {}, "",
                   [cmd.holders EXCEPT ![h] = IF LockGetResult(h) THEN @ \cup {c} ELSE @])
    /\ UNCHANGED <<results, blobs>> /\ StoreFrame

\* lock.release(), called by a client whose get() succeeded
StoreRelease(c, h) ==
    /\ c \in cmd.holders[h]
    /\ locks' = release(h)
    /\ lockCreator' = [lockCreator EXCEPT ![h] = IF locks'[h] = PyNone THEN 0 ELSE @]
    /\ cmd' = Call("release", c, h, TRUE, {}, "", [cmd.holders EXCEPT ![h] = @ \ {c}])
    /\ UNCHANGED <<results, blobs>> /\ StoreFrame

\* jug.cleanup with cleanup_locks_only: store.remove_locks()
CleanupLocksOnly(c) ==
    /\ locks' = remove_locks
    /\ lockCreator' = [h \in Hashes |-> IF locks'[h] = PyNone THEN 0 ELSE lockCreator[h]]
    /\ cmd' = Call("remove_locks", c, 0, TRUE, {}, "",
                   [h \in Hashes |-> IF locks'[h] = PyNone THEN {} ELSE cmd.holders[h]])
    /\ UNCHANGED <<results, blobs>> /\ StoreFrame

\* jug.cleanup on gcs_redis_store, up to the listing of the blobs in
\* sync(); one cleanup command runs at a time
CleanupListBlobs(c) ==
    /\ backend = "gcs" /\ cmd.syncing = 0
    /\ cmd' = [Call("list_blobs", c, 0, TRUE, {}, "", cmd.holders)
                 EXCEPT !.syncing = c, !.current_blobs = list_blobs]
    /\ UNCHANGED <<results, blobs, locks, lockCreator>> /\ StoreFrame

\* jug.cleanup on gcs_redis_store: the script that ends sync()
CleanupSync(c) ==
    /\ backend = "gcs" /\ cmd.syncing = c /\ ~cmd.synced
    /\ results' = sync(cmd.current_blobs)
    /\ cmd' = [Call("sync", c, 0, TRUE, {}, "", cmd.holders)
                 EXCEPT !.synced = TRUE, !.current_blobs = {}]
    /\ UNCHANGED <<blobs, locks, lockCreator>> /\ StoreFrame

\* jug.cleanup: store.cleanup(task.alltasks), reg being the tasks that the
\* script builds when the command is run; on gcs_redis_store the part that
\* follows sync()
Cleanup(c, reg) ==
    LET act == {PyTask(t) : t \in reg}
        out == IF backend = "redis" THEN redis_cleanup(act) ELSE gcs_cleanup(act) IN
    /\ backend = "gcs" => cmd.syncing = c /\ cmd.synced
    /\ results' = out.results
    /\ blobs' = out.blobs
    /\ cmd' = [Call("cleanup", c, 0, out.raised = "", reg, out.raised, cmd.holders)
                 EXCEPT !.syncing = 0, !.synced = FALSE]
    /\ UNCHANGED <<locks, lockCreator>> /\ StoreFrame

(***************************************************************************)
(* jug.invalidate.                                                         *)
(***************************************************************************)
\* options.invalid_name, as characters
Patterns ==
    { <<"a">>, <<"m", ".", "b">>, <<"/", "c", "/">>, <<"/", ".", "/">>, <<"x">> }

\* name.strip('/')
RECURSIVE strip_slash(_)
strip_slash(n) ==
    IF n = <<>> THEN n
    ELSE IF Head(n) = "/" THEN strip_slash(Tail(n))
    ELSE IF n[Len(n)] = "/" THEN strip_slash(SubSeq(n, 1, Len(n) - 1))
    ELSE n

Lit(c) == [any |-> FALSE, char |-> c]

AnyChar == [any |-> TRUE, char |-> ""]

\* invalidate_re (lines 73-81), as a sequence of single-character matchers:
\* /re/ is compiled as it stands, a name containing '.' with its dots
\* escaped, a bare name after an escaped dot
invalidate_re(invalid_name) ==
    IF Len(invalid_name) >= 2 /\ invalid_name[1] = "/"
       /\ \E k \in 2..Len(invalid_name) : invalid_name[k] = "/"
    THEN [k \in 1..Len(strip_slash(invalid_name)) |->
             IF strip_slash(invalid_name)[k] = "." THEN AnyChar
             ELSE Lit(strip_slash(invalid_name)[k])]
    ELSE IF \E k \in 1..Len(invalid_name) : invalid_name[k] = "."
    THEN [k \in 1..Len(invalid_name) |-> Lit(invalid_name[k])]
    ELSE <<Lit(".")>> \o [k \in 1..Len(invalid_name) |-> Lit(invalid_name[k])]

\* re.search(invalidate_re, name)
re_search(re, name) ==
    \E off \in 0..(Len(name) - Len(re)) :
        \A k \in 1..Len(re) : re[k].any \/ re[k].char = name[off + k]

\* dep.hash() of a dependency; the hash of a Tasklet is the hash of no Task
dep_hash(a) == IF a.kind = "task" THEN hash(a.ref) ELSE 0

\* the dependencies of a dependency
dep_dependencies(a) ==
    IF a.kind = "task" THEN dependencies(a.ref) ELSE Tasklet_dependencies(a)

\* walk_dependencies(t): the dependencies of t level by level, each level
\* made of the dependencies of what the caller left in the level before
next_level(deps) == Flatten([k \in 1..Len(deps) |-> dep_dependencies(deps[k])])

\* scan_task_dependencies (lines 98-107): TRUE when t is to be marked
\* invalid; dependencies known to be valid are popped from the level
RECURSIVE scan_levels(_, _, _)
scan_levels(deps, invalid, valid) ==
    IF deps = <<>> THEN FALSE
    ELSE IF \E k \in 1..Len(deps) : dep_hash(deps[k]) \in invalid THEN TRUE
    ELSE LET keep(a) == dep_hash(a) \notin valid
         IN scan_levels(next_level(SelectSeq(deps, keep)), invalid, valid)

\* for t in tasks: scan_task_dependencies(t)  (lines 109-110)
RECURSIVE scan_all(_, _, _)
scan_all(t, invalid, valid) ==
    IF t > NTasks THEN invalid
    ELSE IF scan_levels(dependencies(t), invalid, valid)
         THEN scan_all(t + 1, invalid \cup {hash(t)}, valid)
         ELSE scan_all(t + 1, invalid, valid \cup {hash(t)})

\* the tasks matched by name (lines 89-91)
matched(invalid_name) ==
    {t \in TaskSet : re_search(invalidate_re(invalid_name), alltasks[t].name)}

\* the hashes in invalid_tasks when the scan is over
invalid_tasks(invalid_name) ==
    IF matched(invalid_name) = {} THEN {}
    ELSE scan_all(1, HashesOf(matched(invalid_name)), {})

\* invalidate(store, options) with options.invalid_name, not a dry run;
\* counted holds the hashes that add one to task_counts of their name:
\* those for which store.remove returned true (lines 114-116)
Invalidate(c, invalid_name) ==
    LET inv == invalid_tasks(invalid_name) IN
    /\ results' = [h \in Hashes |-> IF h \in inv THEN PyNone ELSE results[h]]
    /\ blobs' = [h \in Hashes |-> IF h \in inv THEN PyNone ELSE blobs[h]]
    /\ cmd' = [Call("invalidate", c, 0, TRUE, matched(invalid_name), "", cmd.holders)
                 EXCEPT !.pattern = invalid_name,
                        !.counted = {h \in inv : results[h] # PyNone}]
    /\ UNCHANGED <<locks, lockCreator>> /\ StoreFrame

\* a dry run that counts every task of invalid_tasks
dry_run_counted_all(inv) == inv

\* the hashes counted by a dry run: store.can_load(t.hash())  (lines 117-119)
dry_run_counted(inv) == {h \in inv : can_load(h)}

\* invalidate(store, options) with options.dry_run
InvalidateDryRun(c, invalid_name) ==
    /\ cmd' = [Call("invalidate_dry_run", c, 0, TRUE, matched(invalid_name), "", cmd.holders)
                 EXCEPT !.pattern = invalid_name,
                        !.counted = dry_run_counted(invalid_tasks(invalid_name))]
    /\ UNCHANGED <<results, blobs, locks, lockCreator>> /\ StoreFrame

StoreOptions ==
    [execute_nr_wait_cycles |-> 0, execute_keep_going |-> FALSE,
     aggressive_unload |-> FALSE, debug |-> FALSE]

\* the store interface is explored on the registry Twins: two hashes, one
\* of them shared by two tasks
InitStore ==
    /\ backend \in {"redis", "gcs"}
    /\ jugfile \in {g \in GraphIds : Graphs[g] = Twins}
    /\ results = EmptyStore /\ blobs = EmptyStore
    /\ locks = EmptyStore /\ lockCreator = NoCreator
    /\ options = StoreOptions
    /\ active = {}
    /\ wk = [w \in Workers |-> InitWorker]
    /\ executions = [h \in Hashes |-> 0]
    /\ cmd = IdleCmd

\* a client in the middle of its cleanup command makes no other call
Idle(c) == cmd.syncing # c

NextStore ==
    \E c \in Workers :
        \/ \E h \in HashesOf(TaskSet) :
              \/ \E v \in DumpValues : Idle(c) /\ StoreDump(c, h, v)
              \/ Idle(c) /\ StoreRemove(c, h)
              \/ Idle(c) /\ StoreGet(c, h)
              \/ Idle(c) /\ StoreRelease(c, h)
        \/ Idle(c) /\ CleanupLocksOnly(c)
        \/ CleanupListBlobs(c)
        \/ CleanupSync(c)
        \/ \E reg \in SUBSET TaskSet : Cleanup(c, reg)

SpecStore == InitStore /\ [][NextStore]_vars

\* invalidate is explored on every registry, the results being dumped in
\* any order by one client before and between its runs
InitInvalidate ==
    /\ backend \in {"redis", "gcs"}
    /\ jugfile \in Scripts
    /\ results = EmptyStore /\ blobs = EmptyStore
    /\ locks = EmptyStore /\ lockCreator = NoCreator
    /\ options = StoreOptions
    /\ active = {}
    /\ wk = [w \in Workers |-> InitWorker]
    /\ executions = [h \in Hashes |-> 0]
    /\ cmd = IdleCmd

NextInvalidate ==
    \/ \E h \in HashesOf(TaskSet) : StoreDump(1, h, 1)
    \/ \E p \in Patterns : Invalidate(1, p)

SpecInvalidate == InitInvalidate /\ [][NextInvalidate]_vars

(***************************************************************************)
(* Properties of the execute command.                                      *)
(***************************************************************************)
Done(w) == wk[w].pc = "done"

AllDone == \A w \in active : Done(w)

Loadable(t) == can_load(hash(t))

\* C1: with no removal command and no failing task function, the function
\* of each task (each distinct hash) is called at most once in total over
\* all workers, in every interleaving.
C1_AtMostOnce == \A h \in Hashes : executions[h] <= 1

\* a worker obtained the lock of a task that another worker had already
\* executed, and is about to drop it without running the function
C1_Witness ==
    \E w \in active :
        /\ Cardinality(active) > 1
        /\ wk[w].pc = "finally" /\ wk[w].locked
        /\ wk[w].raising = "" /\ ~wk[w].value_failed
        /\ wk[w].tasks_ready[wk[w].i] \notin Range(wk[w].ran)
        /\ executions[hash(wk[w].tasks_ready[wk[w].i])] = 1

\* C3: whenever a worker of execute_loop runs a task (Task.run, entered
\* after can_run held), every dependency has a result in memory or in the
\* store, so that the argument values are obtained with value() without a
\* failure and without executing a function.
C3_ValueSucceeds == \A w \in active : ~wk[w].value_failed

\* C5: a single worker on an empty store executes every distinct hash
\* exactly once, leaves every task loadable and returns exactly the list
\* of the tasks it executed, for every wait-cycle count.
C5_SingleWorkerCompletes ==
    (active = {1} /\ Done(1)) =>
        /\ wk[1].exit = "return"
        /\ \A t \in TaskSet : executions[hash(t)] = 1 /\ Loadable(t)
        /\ wk[1].ret = wk[1].ran

\* C6: when no worker crashed and every worker has left execute_loop,
\* every task is loadable, for every wait-cycle count and interleaving.
C6_AllLoadableAtEnd ==
    (AllDone /\ \A w \in active : wk[w].exit = "return") =>
        \A t \in TaskSet : Loadable(t)

\* C7: whenever execute_loop returns or is left by an exception (of a task
\* function, with or without keep-going, of the hash check, or SystemExit
\* raised by the SIGTERM handler while a task is running), no lock entry
\* created by this worker remains in the store.
C7_NoLockLeft ==
    \A w \in active :
        (/\ Done(w)
         /\ \/ wk[w].exit \in {"return", "Exception", "RuntimeError", "AssertionError"}
            \/ wk[w].exit = "SystemExit" /\ wk[w].signal_at = "running")
        => \A h \in Hashes : lockCreator[h] # w

\* a worker was ended by SIGTERM while its task function was running
C7_Witness ==
    \E w \in active :
        /\ Done(w) /\ wk[w].exit = "SystemExit" /\ wk[w].signal_at = "running"
        /\ \A h \in Hashes : locks[h] = PyNone

(***************************************************************************)
(* Properties of the store interface, of cleanup and of invalidate.        *)
(***************************************************************************)
\* C2: get() returns true only to the caller that created the lock entry;
\* while the entry exists every get() on the hash, by whatever handle,
\* returns false; after release() the next get() returns true; of the
\* get() calls on one hash at most one holds the lock at any time.
C2_LockMutex ==
    /\ \A h \in Hashes :
          /\ Cardinality(cmd.holders[h]) <= 1
          /\ cmd.holders[h] # {} => locks[h] # PyNone
    /\ cmd.name = "get" =>
          /\ cmd.result <=> ~cmd.was_locked
          /\ cmd.result => lockCreator[cmd.h] = cmd.client
    /\ cmd.name = "release" => locks[cmd.h] = PyNone

\* a second handle was refused while the first one holds the lock
C2_Witness ==
    /\ cmd.name = "get" /\ ~cmd.result
    /\ cmd.holders[cmd.h] # {} /\ cmd.client \notin cmd.holders[cmd.h]

\* C4: once the result of a task was dumped, can_load of its hash stays
\* true in every later state, whatever the clients dump, load or lock and
\* whatever cleanup runs with a script that still contains the task, until
\* a remove or a cleanup is aimed at that hash.
C4_ResultPersists ==
    [][\A h \in Hashes :
          (/\ can_load(h)
           /\ ~(cmd'.name = "remove" /\ cmd'.h = h)
           /\ ~(cmd'.name = "cleanup" /\ h \notin HashesOf(cmd'.registry)))
          => results'[h] # PyNone]_vars

\* C9: after cleanup was run with the current registry, every result entry
\* of a registry task is still loadable and every result entry of a hash
\* that belongs to no registry task is deleted, in every backend.
C9_CleanupKeepsActive ==
    cmd.name = "cleanup" =>
        \A h \in Hashes :
            IF h \in HashesOf(cmd.registry)
            THEN cmd.before_results[h] # PyNone => can_load(h)
            ELSE ~can_load(h)

\* C10: cleanup with locks-only deletes every lock entry (is_locked is
\* false and get() succeeds for every hash afterwards) and leaves every
\* result entry as it was.
C10_LocksOnly ==
    cmd.name = "remove_locks" =>
        /\ \A h \in Hashes : locks[h] = PyNone /\ ~is_locked(h) /\ LockGetResult(h)
        /\ results = cmd.before_results /\ blobs = cmd.before_blobs

\* locks-only cleanup was run on a store holding a lock and a result
C10_Witness ==
    /\ cmd.name = "remove_locks" /\ cmd.had_locks
    /\ \E h \in Hashes : can_load(h) /\ load(h) # PyNone

\* the Tasks a task depends on: those anywhere in its arguments, inside
\* lists, tuples and dict values and inside Tasklets
DependsOn(t) == Range(execute_tasks(t))

RECURSIVE Dependents(_)
Dependents(S) ==
    LET more == S \cup {t \in TaskSet : DependsOn(t) \cap S # {}}
    IN IF more = S THEN S ELSE Dependents(more)

\* C8: after invalidate(pattern) has returned, can_load is false for every
\* registry task whose name matches and for every registry task depending
\* on one of them, directly or transitively, also through Tasklets and
\* nested arguments.
C8_Cascade ==
    cmd.name = "invalidate" =>
        \A t \in Dependents(cmd.registry) : ~can_load(hash(t))

(***************************************************************************)
(* Properties of the store entries.                                        *)
(***************************************************************************)
C11_State ==
    /\ \A h \in Hashes : can_load(h) => h \in cmd.dumped
    /\ cmd.name = "dump" =>
          /\ can_load(cmd.h) /\ load(cmd.h) = cmd.value
          /\ PyStr(cmd.h) \in list
    /\ cmd.name = "remove" => ~can_load(cmd.h) /\ PyStr(cmd.h) \notin list

C11_Frame ==
    cmd'.name \in {"dump", "remove"} =>
        /\ locks' = locks
        /\ \A x \in Hashes \ {cmd'.h} :
              results'[x] = results[x] /\ blobs'[x] = blobs[x]

\* C11: for every hash h, can_load(h) is false before any dump; after
\* dump(v, h) can_load(h) is true, load(h) is v and list() contains h;
\* after remove(h) can_load(h) is false; dump and remove of h change
\* neither the entries of other hashes nor any lock entry.
C11_EntryLifecycle == []C11_State /\ [][C11_Frame]_vars

\* an entry was removed while another hash had an entry and a lock was held
C11_Witness ==
    /\ cmd.name = "remove" /\ cmd.result
    /\ \E x \in Hashes \ {cmd.h} : can_load(x) /\ load(x) # PyNone
    /\ \E x \in Hashes : locks[x] # PyNone

\* C12: whenever can_load(h) is true, load(h) returns a complete value; in
\* the hybrid backend the result key is present only while the blob is.
C12_MarkerImpliesBlob == \A h \in Hashes : can_load(h) => load(h) # PyNone

(***************************************************************************)
(* The check command (jug.check -> _check_or_sleep_until).                 *)
(***************************************************************************)
\* recursive_dependencies over a sequence of dependencies: the Tasks among
\* them and among their dependencies, at every depth
RECURSIVE recursive_dependencies_of(_)
recursive_dependencies_of(deps) ==
    IF deps = <<>> THEN {}
    ELSE LET dep == Head(deps)
         IN (IF dep.kind = "task" THEN {dep.ref} ELSE {})
            \cup recursive_dependencies_of(dep_dependencies(dep))
            \cup recursive_dependencies_of(Tail(deps))

\* recursive_dependencies(t) of a registry task
recursive_dependencies(t) == recursive_dependencies_of(dependencies(t))

\* _check_or_sleep_until(store, False): the loop over reversed(tasks) from
\* position t on, with the set of tasks still to be looked at
RECURSIVE _check_or_sleep_until(_, _)
_check_or_sleep_until(t, act) ==
    IF t = 0 THEN 0
    ELSE IF t \notin act THEN _check_or_sleep_until(t - 1, act)
    ELSE IF ~can_load(hash(t)) THEN 1
    ELSE _check_or_sleep_until(t - 1, act \ recursive_dependencies(t))

\* jug.check: sys.exit(_check_or_sleep_until(store, False))
Check(c) ==
    /\ cmd' = [Call("check", c, 0, TRUE, TaskSet, "", cmd.holders)
                 EXCEPT !.value = PyInt(_check_or_sleep_until(NTasks, TaskSet))]
    /\ UNCHANGED <<results, blobs, locks, lockCreator>> /\ StoreFrame

\* check is explored on every registry, in every store state that dump and
\* remove produce
NextCheck ==
    \/ \E h \in HashesOf(TaskSet) : StoreDump(1, h, 1)
    \/ \E h \in HashesOf(TaskSet) : StoreRemove(1, h)
    \/ Check(1)

SpecCheck == InitInvalidate /\ [][NextCheck]_vars

\* C13: check exits with status 0 if and only if every task of the registry
\* is loadable at the time of the check, and with status 1 otherwise, in
\* every store state.
C13_CheckExitStatus ==
    cmd.name = "check" =>
        /\ cmd.value \in {PyInt(0), PyInt(1)}
        /\ cmd.value = PyInt(0) <=> \A t \in TaskSet : Loadable(t)

(***************************************************************************)
(* Properties of the execute command with failures.                        *)
(***************************************************************************)
\* the task a worker is attempting in the ready loop
Current(w) == wk[w].tasks_ready[wk[w].i]

\* the recomputed hash of the worker's current task differs from the
\* memoized one
HashDiffers(w) ==
    _compute_set_hash(Mutated(alltasks, wk[w].heap), Current(w))
        # _compute_set_hash(alltasks, Current(w))

\* C15: in debug mode, when the function of a task changed an argument so
\* that the recomputed hash differs from the memoized one, Task.run raises
\* the hash-mismatch error, after the function has completed; when the
\* function changed no argument no hash-mismatch error is raised.
C15_MutationDetected ==
    \A w \in active :
        wk[w].pc = "finally" =>
            /\ wk[w].check = "failed" =>
                  /\ options.debug /\ HashDiffers(w) /\ wk[w].mutated # 0
                  /\ Current(w) \in Range(wk[w].ran)
            /\ wk[w].check = "passed" => ~HashDiffers(w)

\* C16: when the hash-mismatch error is raised for a task inside
\* execute_loop it propagates out of execute_loop and ends the worker,
\* whatever the keep-going option.
C16_HashMismatchFatal ==
    \A w \in active :
        wk[w].check = "failed" =>
            \/ wk[w].raising = "RuntimeError"
            \/ wk[w].exit \in {"RuntimeError", "SystemExit"}

\* C20: when execute_loop ends because a stalled pass finds the wait-cycle
\* counter at zero, it returns the list of all the tasks the worker
\* executed during the call, the list it returns when the frontier empties.
C20_StallReturnsAll ==
    \A w \in active :
        Done(w) /\ wk[w].exit = "return" => wk[w].ret = wk[w].tasks_total_executed

\* the function of the worker's current task has raised
Raised(w) == wk[w].pc = "finally" /\ Current(w) \in wk[w].failed

\* the exception of a task function leaves execute_loop
Propagates(w) ==
    wk[w].pc = "finally" /\ wk'[w].pc = "done" /\ wk'[w].exit = "Exception"

\* without keep-going the exception of a task function is on its way out
\* of execute_loop
C18_Pending ==
    \A w \in active :
        Raised(w) /\ ~options.execute_keep_going =>
            wk[w].raising \in {"Exception", "SystemExit"}

\* the step on which the exception leaves execute_loop
C18_Leaves ==
    \A w \in active :
        Propagates(w) =>
            /\ Current(w) \in wk[w].failed
            /\ locks'[hash(Current(w))] = PyNone
            /\ lockCreator'[hash(Current(w))] # w
            /\ results'[hash(Current(w))] = PyNone
            /\ blobs'[hash(Current(w))] = PyNone
            /\ \A j \in (wk[w].i + 1)..Len(wk[w].tasks_ready) :
                  LET x == wk[w].tasks_ready[j] IN
                  /\ x \notin Range(wk[w].ran) \cup wk[w].failed
                  /\ lockCreator'[hash(x)] # w

\* C18: without keep-going, when the function of a task raises inside
\* execute_loop, the exception leaves execute_loop, and only after the lock
\* of the task was released; at that point the store has no result entry of
\* the task and no ready task later in the pass was attempted or locked.
C18_PropagatesAfterRelease == []C18_Pending /\ [][C18_Leaves]_vars

\* the exception of a task function has left execute_loop without
\* keep-going, the task having been locked and ready tasks being left over
C18_Witness ==
    \E w \in active :
        /\ Done(w) /\ wk[w].exit = "Exception" /\ ~options.execute_keep_going
        /\ wk[w].i < Len(wk[w].tasks_ready)
        /\ wk[w].failed # {} /\ wk[w].ran # <<>>

\* the tasks of a worker whose function raised in an earlier pass and that
\* nobody has computed since
FailedBefore(w) ==
    {d \in wk[w].failed : d \notin Range(wk[w].tasks_ready) /\ ~Loadable(d)}

\* with keep-going the exception of a task function stays inside
\* execute_loop, and no task depending on a task that failed is ready
C17_Kept ==
    \A w \in active :
        options.execute_keep_going =>
            /\ wk[w].raising # "Exception" /\ wk[w].exit # "Exception"
            /\ \A x \in Range(wk[w].tasks_ready) :
                  DependsOn(x) \cap FailedBefore(w) = {}
            /\ Dependents(FailedBefore(w)) \ FailedBefore(w)
                  \subseteq Range(wk[w].tasks_current)

\* the step of the finally clause after the function of a task raised
C17_GoesOn ==
    \A w \in active :
        (/\ options.execute_keep_going /\ Raised(w)
         /\ wk'[w] # wk[w] /\ wk'[w].exit # "SystemExit") =>
            /\ locks'[hash(Current(w))] = PyNone
            /\ lockCreator'[hash(Current(w))] # w
            /\ results'[hash(Current(w))] = PyNone
            /\ blobs'[hash(Current(w))] = PyNone
            /\ wk'[w].tasks_ready = wk[w].tasks_ready
            /\ IF wk[w].i < Len(wk[w].tasks_ready)
               THEN wk'[w].pc = "ready_can_load" /\ wk'[w].i = wk[w].i + 1
               ELSE wk'[w].pc = "pass_end"

\* C17: with keep-going, when the function of a task raises inside
\* execute_loop, the exception is not propagated, the lock of the task is
\* released, no result entry is stored for it, the remaining ready tasks
\* of the pass are still attempted, and every task that depends on the
\* failed task classifies as waiting in the following passes.
C17_KeepGoing == []C17_Kept /\ [][C17_GoesOn]_vars

\* C19: when a store operation raises during a pass of execute_loop
\* (can_load, is_locked, lock, load or dump), the worker is not terminated
\* and the affected task, as long as it has no result, stays in the
\* frontier to be considered again in the next pass.
C19_StoreFaultRecovered ==
    \A w \in active :
        /\ wk[w].raising # "StoreError" /\ wk[w].exit # "StoreError"
        /\ \A t \in wk[w].faulted :
              ~Loadable(t) /\ ~Done(w) => t \in Range(wk[w].tasks_current)

(***************************************************************************)
(* Properties of the execute command on a script with a barrier.           *)
(***************************************************************************)
\* C14: when loading the script raises a barrier, execute runs a pass,
\* loads the script again and runs another pass, repeatedly; the task built
\* after the barrier is executed only in a pass after a and c have results;
\* execute exits only after a load that raised no barrier was followed by
\* a pass.
C14_BarrierReload ==
    /\ cmd.pc = "exited" =>
          cmd.loads > 0 /\ cmd.passes = cmd.loads /\ ~cmd.has_barrier
    /\ cmd.pc = "loop" => cmd.loads = cmd.passes + 1
    /\ cmd.has_barrier => alltasks = BarrierHead
    /\ executions[3] > 0 =>
          /\ cmd.loads > 1 /\ alltasks = BarrierFull
          /\ can_load(1) /\ can_load(2)

(***************************************************************************)
(* Properties of the lock entries.                                         *)
(***************************************************************************)
\* C21: in every state of every backend the hashes yielded by listlocks()
\* are exactly the hashes that have a lock entry, whatever result entries
\* exist.
C21_ListLocksExact ==
    listlocks = {PyStr(h) : h \in {x \in Hashes : locks[x] # PyNone}}

\* C22: in every backend is_locked() of a hash is false when the hash has
\* no lock entry and true in every state from a successful get() until
\* the next release() or remove_locks() of that hash.
C22_IsLockedExact == \A h \in Hashes : is_locked(h) <=> locks[h] # PyNone

(***************************************************************************)
(* Task.hash on pairs of Tasks built by one script: cmd holds the two      *)
(* Task objects (with the display name of their function) and their        *)
(* hashes.                                                                 *)
(***************************************************************************)
\* the argument values the Tasks are built from
HashArgs ==
    {ConstArg(1), ConstArg(2),
     ListArg(<<ConstArg(1)>>), ListArg(<<ConstArg(1), ConstArg(2)>>),
     ListArg(<<ListArg(<<ConstArg(1)>>), ConstArg(2)>>),
     ListArg(<<ListArg(<<ConstArg(1), ConstArg(2)>>)>>)}

MaxArgs == 1

\* Task.__init__: name, display_name, args, kwargs
Built ==
    [name : {<<"m", ".", "a">>, <<"m", ".", "b">>}, display_name : {"x", "y"},
     args : UNION {[1..n -> HashArgs] : n \in 0..MaxArgs},
     kwargs : {<<>>, <<ConstArg(1)>>}]

InitHash ==
    /\ backend = "redis" /\ jugfile \in {g \in GraphIds : Graphs[g] = Twins}
    /\ results = EmptyStore /\ blobs = EmptyStore
    /\ locks = EmptyStore /\ lockCreator = NoCreator
    /\ options \in {o \in ExecOptions : o.execute_nr_wait_cycles = 0
                                        /\ ~o.execute_keep_going /\ ~o.aggressive_unload}
    /\ active = {}
    /\ wk = [w \in Workers |-> InitWorker]
    /\ executions = [h \in Hashes |-> 0]
    /\ cmd \in [pc : {"built"}, left : Built, right : Built, hl : {0}, hr : {0}]

\* left.hash() and right.hash()
HashBoth ==
    /\ cmd.pc = "built"
    /\ cmd' = [cmd EXCEPT !.pc = "hashed",
                          !.hl = TaskHash(<<cmd.left, cmd.right>>, 1),
                          !.hr = TaskHash(<<cmd.left, cmd.right>>, 2)]
    /\ UNCHANGED <<backend, jugfile, results, blobs, locks, lockCreator,
                   options, active, wk, executions>>

SpecHash == InitHash /\ [][HashBoth]_vars

(***************************************************************************)
(* Properties of Task.hash.                                                *)
(***************************************************************************)
\* C23: two Tasks built from the same function with equal positional and
\* equal keyword arguments have equal hashes, two Tasks of one function
\* that differ in the value of an argument have different hashes, and the
\* display name of the function has no influence.
C23_HashDeterminism ==
    cmd.pc = "hashed" =>
        LET l == cmd.left
            r == cmd.right
            same == l.args = r.args /\ l.kwargs = r.kwargs
            differ == /\ Len(l.args) = Len(r.args) /\ Len(l.kwargs) = Len(r.kwargs)
                      /\ ~same
        IN /\ l.name = r.name /\ same => cmd.hl = cmd.hr
           /\ l.name = r.name /\ differ => cmd.hl # cmd.hr
           /\ l.name # r.name => cmd.hl # cmd.hr

(***************************************************************************)
(* The value codec (backends/encode.py) on the values a task function can  *)
(* return: None, a number, a list, a numpy array, an instance of a class   *)
(* derived from numpy.ndarray.  A byte string is the sequence of what was  *)
(* written: the zlib stream of a prefix byte and of the payload of the     *)
(* encoder.  cmd holds the value v, s = encode(v), d = decode(s) and       *)
(* s2 = encode(d).                                                         *)
(***************************************************************************)
MaxVal == 5

Supported ==
    {PyNone} \cup [type : {"int", "list", "ndarray", "Derived"}, val : 0..MaxVal]

\* encode_to: nothing is written for None; otherwise the first encoder of
\* encoder_set that can_encode writes its prefix and its payload to the
\* compress_stream: NDArrayEncoder (numpy.save, which writes dtype, shape
\* and data) when type(obj) == numpy.ndarray, else PickleEncoder
encode_to(obj) ==
    IF obj = PyNone THEN <<>>
    ELSE IF obj.type = "ndarray"
    THEN <<[z |-> <<[b |-> "N", type |-> "", val |-> 0],
                    [b |-> "npy", type |-> "", val |-> obj.val]>>]>>
    ELSE <<[z |-> <<[b |-> "P", type |-> "", val |-> 0],
                    [b |-> "pickle", type |-> obj.type, val |-> obj.val]>>]>>

\* a decoder that takes every payload for a pickle
decode_from_pickle(stream) ==
    IF stream = <<>> THEN [used |-> "", obj |-> PyNone]
    ELSE [used |-> "P", obj |-> [type |-> stream[1].z[2].type, val |-> stream[1].z[2].val]]

\* decode_from: the first byte of the decompress_stream is the prefix; None
\* when there is none, else the encoder with that prefix decodes the rest
\* (numpy.load returns a numpy.ndarray, pickle.load the pickled object)
decode_from(stream) ==
    LET plain == IF stream = <<>> THEN <<>> ELSE stream[1].z
        prefix == IF plain = <<>> THEN "" ELSE plain[1].b
    IN IF prefix = "" THEN [used |-> "", obj |-> PyNone]
       ELSE IF prefix = "N"
       THEN [used |-> "N", obj |-> [type |-> "ndarray", val |-> plain[2].val]]
       ELSE [used |-> "P", obj |-> [type |-> plain[2].type, val |-> plain[2].val]]

InitCodec ==
    /\ backend = "redis" /\ jugfile \in {g \in GraphIds : Graphs[g] = Twins}
    /\ results = EmptyStore /\ blobs = EmptyStore
    /\ locks = EmptyStore /\ lockCreator = NoCreator
    /\ options \in {o \in ExecOptions : o.execute_nr_wait_cycles = 0
                                        /\ ~o.execute_keep_going /\ ~o.aggressive_unload}
    /\ active = {}
    /\ wk = [w \in Workers |-> InitWorker]
    /\ executions = [h \in Hashes |-> 0]
    /\ cmd \in [pc : {"value"}, v : Supported, s : {<<>>}, d : {PyNone},
                 used : {""}, s2 : {<<>>}]

\* encode(obj): of the value, and of what decode returned
CodecEncode ==
    /\ cmd.pc \in {"value", "decoded"}
    /\ cmd' = IF cmd.pc = "value"
              THEN [cmd EXCEPT !.pc = "encoded", !.s = encode_to(cmd.v)]
              ELSE [cmd EXCEPT !.pc = "reencoded", !.s2 = encode_to(cmd.d)]
    /\ UNCHANGED <<backend, jugfile, results, blobs, locks, lockCreator,
                   options, active, wk, executions>>

\* decode(s)
CodecDecode ==
    /\ cmd.pc = "encoded"
    /\ cmd' = [cmd EXCEPT !.pc = "decoded", !.d = decode_from(cmd.s).obj,
                          !.used = decode_from(cmd.s).used]
    /\ UNCHANGED <<backend, jugfile, results, blobs, locks, lockCreator,
                   options, active, wk, executions>>

SpecCodec == InitCodec /\ [][CodecEncode \/ CodecDecode]_vars

Kill(w) ==
    LET r == wk[w] IN
    /\ w \in active /\ r.pc \in InTry /\ r.locked
    /\ \A o \in active : wk[o].exit # "killed"
    /\ Set(w, [r EXCEPT !.pc = "done", !.exit = "killed"])
    /\ StoreUnchanged /\ ConfigUnchanged /\ UNCHANGED executions

\* store.remove_locks() called by an operator once a worker has stopped,
\* while lock keys exist
OperatorRemoveLocks ==
    /\ \E w \in active : wk[w].exit = "killed"
    /\ \E h \in Hashes : locks[h] # PyNone
    /\ locks' = remove_locks
    /\ lockCreator' = NoCreator
    /\ UNCHANGED <<results, blobs, executions, wk>> /\ ConfigUnchanged

InitStuck ==
    /\ backend \in {"redis", "gcs"}
    /\ jugfile \in {g \in GraphIds : Graphs[g] = Twins}
    /\ results = EmptyStore /\ blobs = EmptyStore
    /\ locks = EmptyStore /\ lockCreator = NoCreator
    /\ options \in {o \in ExecOptions : ~o.execute_keep_going /\ ~o.aggressive_unload}
    /\ active = Workers
    /\ wk = [w \in Workers |-> InitWorker]
    /\ executions = [h \in Hashes |-> 0]
    /\ cmd = IdleCmd

NextStuck ==
    \/ \E w \in Workers : WorkerStep(w) \/ Kill(w)
    \/ OperatorRemoveLocks

\* the workers that are not stopped keep taking steps
SpecStuck == InitStuck /\ [][NextStuck]_vars /\ \A w \in Workers : WF_vars(WorkerStep(w))

(***************************************************************************)
(* Properties of a lock whose holder has stopped.                          *)
(***************************************************************************)
\* the lock entry of h written by the stopped worker w is still there
StuckOn(w, h) ==
    /\ wk[w].exit = "killed" /\ h = hash(Current(w))
    /\ locks[h] # PyNone /\ lockCreator[h] = w

\* no other worker is past t.lock() with the lock of a task of hash h
C25_NotTaken ==
    \A w \in active : \A h \in Hashes :
        StuckOn(w, h) =>
            \A o \in active \ {w} :
                wk[o].pc \in {"run", "running", "dump", "dump_key"} => hash(Current(o)) # h

\* no step starts the function of a task of hash h
C25_NotRun ==
    \A w \in active : \A h \in Hashes :
        StuckOn(w, h) => executions'[h] = executions[h]

\* every worker has left execute_loop or has stopped
C25_Ended == \A w \in active : wk[w].pc = "done"

\* C25: when a worker has stopped while it held the lock of hash h and had
\* stored no result, then as long as that lock entry exists no other worker
\* executes h: the others find h locked or fail to acquire the lock, and
\* they terminate when their wait cycles are used up; h is executed again
\* only after remove_locks (or a release) has deleted the entry.
C25_NoLockStealing ==
    /\ []C25_NotTaken
    /\ [][C25_NotRun]_vars
    /\ <>[]C25_Ended

\* the other worker has returned from a stalled pass with the task of the
\* stopped worker on its frontier, the lock entry still in place
C25_Witness ==
    \E w \in active : \E o \in active \ {w} :
        /\ StuckOn(w, hash(Current(w)))
        /\ wk[o].exit = "return"
        /\ \E k \in 1..Len(wk[o].tasks_current) :
              hash(wk[o].tasks_current[k]) = hash(Current(w))
        /\ results[hash(Current(w))] = PyNone

(***************************************************************************)
(* topological_sort (task.py 444-462) applied to a list of distinct Tasks  *)
(* of a registry.  whites is a set of objects hashed by identity, so       *)
(* whites.pop() returns any of its members.  cmd holds the list handed in  *)
(* (given), the locals whites and sorted, and the list as it is left.      *)
(***************************************************************************)
\* dfs(t), and the loop over t.dependencies() from the k-th on; st holds
\* whites and sorted.  A dependency that is a Tasklet is never in whites
RECURSIVE dfs(_, _), dfs_deps(_, _, _)
dfs(t, st) ==
    LET after == dfs_deps(dependencies(t), 1, st)
    IN [after EXCEPT !.sorted = Append(@, t)]

dfs_deps(deps, k, st) ==
    IF k > Len(deps) THEN st
    ELSE IF deps[k].kind = "task" /\ deps[k].ref \in st.whites
    THEN dfs_deps(deps, k + 1,
                  dfs(deps[k].ref, [st EXCEPT !.whites = @ \ {deps[k].ref}]))
    ELSE dfs_deps(deps, k + 1, st)

InitSort ==
    /\ backend = "redis" /\ jugfile \in GraphIds
    /\ results = EmptyStore /\ blobs = EmptyStore
    /\ locks = EmptyStore /\ lockCreator = NoCreator
    /\ options \in {o \in ExecOptions : o.execute_nr_wait_cycles = 0
                                        /\ ~o.execute_keep_going /\ ~o.aggressive_unload}
    /\ active = {}
    /\ wk = [w \in Workers |-> InitWorker]
    /\ executions = [h \in Hashes |-> 0]
    /\ \E given \in SUBSET TaskSet :
          cmd = [pc |-> "sorting", given |-> SetToSeq(given), tasks |-> SetToSeq(given),
                 whites |-> given, sorted |-> <<>>]

\* next = whites.pop(); dfs(next)
SortPop ==
    /\ cmd.pc = "sorting" /\ cmd.whites # {}
    /\ \E next \in cmd.whites :
          LET st == dfs(next, [whites |-> cmd.whites \ {next}, sorted |-> cmd.sorted])
          IN cmd' = [cmd EXCEPT !.whites = st.whites, !.sorted = st.sorted]
    /\ UNCHANGED <<backend, jugfile, results, blobs, locks, lockCreator,
                   options, active, wk, executions>>

\* tasks[:] = sorted
SortAssign ==
    /\ cmd.pc = "sorting" /\ cmd.whites = {}
    /\ cmd' = [cmd EXCEPT !.pc = "sorted", !.tasks = cmd.sorted]
    /\ UNCHANGED <<backend, jugfile, results, blobs, locks, lockCreator,
                   options, active, wk, executions>>

SpecSort == InitSort /\ [][SortPop \/ SortAssign]_vars

\* C26: topological_sort(tasks) leaves the list a permutation of what it
\* was handed, in which no task depends on a task at a later position,
\* directly or through other tasks, Tasklets included and tasks outside of
\* the list included.
C26_TopologicalOrder ==
    cmd.pc = "sorted" =>
        /\ Len(cmd.tasks) = Len(cmd.given)
        /\ Range(cmd.tasks) = Range(cmd.given)
        /\ \A i, j \in 1..Len(cmd.tasks) :
              i < j => cmd.tasks[j] \notin recursive_dependencies(cmd.tasks[i])

(***************************************************************************)
(* The tasks invalidate matches by name, on the scripts and on a registry  *)
(* of functions with similar names.                                        *)
(***************************************************************************)
InitSeeds ==
    /\ backend \in {"redis", "gcs"}
    /\ jugfile \in Scripts \cup {g \in GraphIds : Graphs[g] = Alike}
    /\ results = EmptyStore /\ blobs = EmptyStore
    /\ locks = EmptyStore /\ lockCreator = NoCreator
    /\ options = StoreOptions
    /\ active = {}
    /\ wk = [w \in Workers |-> InitWorker]
    /\ executions = [h \in Hashes |-> 0]
    /\ cmd = IdleCmd

SpecSeeds == InitSeeds /\ [][NextInvalidate]_vars

\* name ends with suffix
EndsWith(name, suffix) ==
    /\ Len(name) >= Len(suffix)
    /\ SubSeq(name, Len(name) - Len(suffix) + 1, Len(name)) = suffix

\* C27: the tasks invalidate matches by name are exactly: for a pattern
\* /re/, the tasks whose name the regular expression matches; for a pattern
\* containing '.', the tasks whose fully qualified name is that pattern;
\* for any other pattern, the tasks whose fully qualified name ends with
\* '.' followed by the pattern.  No task of another name is matched.
C27_SeedSelection ==
    cmd.name = "invalidate" =>
        LET p == cmd.pattern IN
        cmd.registry =
            IF Head(p) = "/" /\ p[Len(p)] = "/"
            THEN {t \in TaskSet : re_search(invalidate_re(p), alltasks[t].name)}
            ELSE IF \E k \in 1..Len(p) : p[k] = "."
            THEN {t \in TaskSet : alltasks[t].name = p}
            ELSE {t \in TaskSet : EndsWith(alltasks[t].name, <<".">> \o p)}

(***************************************************************************)
(* The execute command of two workers on the script Fork, the task         *)
(* functions all returning.                                                *)
(***************************************************************************)
InitOrder ==
    /\ backend \in {"redis", "gcs"}
    /\ jugfile \in {g \in GraphIds : Graphs[g] = Fork}
    /\ results = EmptyStore /\ blobs = EmptyStore
    /\ locks = EmptyStore /\ lockCreator = NoCreator
    /\ options \in {o \in ExecOptions : ~o.execute_keep_going /\ ~o.aggressive_unload}
    /\ active = Workers
    /\ wk = [w \in Workers |-> InitWorker]
    /\ executions = [h \in Hashes |-> 0]
    /\ cmd = IdleCmd

SpecOrder == InitOrder /\ [][NextExec]_vars

(***************************************************************************)
(* Properties of the passes of execute_loop.                               *)
(***************************************************************************)
\* the positions of the ready loop at which t.lock() has been called for
\* the current task
Attempting == {"locked_can_load", "run", "running", "dump", "dump_key", "finally"}

\* C28: in every pass of execute_loop, the first and the later ones, of
\* any two tasks attempted in the pass the one that comes first in the
\* task registry is attempted first: a task that is being attempted comes
\* later in the registry than every task of the pass that was executed or
\* whose lock could not be acquired.
C28_RegistryOrder ==
    \A w \in active :
        wk[w].pc \in Attempting =>
            \A k \in 1..(wk[w].i - 1) :
                wk[w].tasks_ready[k] \in Range(wk[w].tasks_executed) \cup Range(wk[w].tasks_locked)
                    => wk[w].tasks_ready[k] < wk[w].tasks_ready[wk[w].i]

\* the step that ends a pass of worker w (lines 206-216): the pass has
\* executed a task, and what it executed is not on the next frontier; or
\* it has stalled, and one wait cycle is used for the sleep before the next
\* pass; or execute_loop is left
C29_PassEnds(w) ==
    (wk[w].pc = "pass_end" /\ wk'[w] # wk[w]) =>
        \/ /\ wk[w].tasks_executed # <<>>
           /\ Range(wk[w].tasks_executed) \cap Range(wk'[w].tasks_current) = {}
           /\ wk'[w].wait_cycles = wk[w].wait_cycles
        \/ /\ wk[w].tasks_executed = <<>> /\ wk'[w].tasks_current # <<>>
           /\ wk'[w].wait_cycles = wk[w].wait_cycles - 1
           /\ wk'[w].pc = "classify"
        \/ wk'[w].pc = "done"

\* the frontier only shrinks and the counter is never raised
C29_Frame ==
    \A w \in active :
        /\ C29_PassEnds(w)
        /\ wk'[w].wait_cycles <= wk[w].wait_cycles
        /\ Range(wk'[w].tasks_current) \subseteq Range(wk[w].tasks_current)

\* the sleeps and the passes made so far
C29_Bounded ==
    \A w \in active :
        /\ wk[w].wait_cycles >= 0
        /\ options.execute_nr_wait_cycles - wk[w].wait_cycles <= options.execute_nr_wait_cycles
        /\ wk[w].passes <= NTasks + options.execute_nr_wait_cycles + 1

\* every worker has left execute_loop
C29_Left == \A w \in active : wk[w].pc = "done"

\* C29: execute_loop terminates whatever the other workers do, the task
\* functions returning; every pass executes at least one task, which
\* leaves the frontier for good, or stalls and uses exactly one wait cycle,
\* or ends the loop; the counter is never reset, so there are at most
\* execute_nr_wait_cycles sleeps and at most
\* |tasks| + execute_nr_wait_cycles + 1 passes.
C29_Termination ==
    /\ []C29_Bounded
    /\ [][C29_Frame]_vars
    /\ <>[]C29_Left

\* a worker has left the loop after a pass that executed a task, a pass
\* that stalled and slept, and a last pass that stalled
C29_Witness ==
    \E w \in active :
        /\ wk[w].pc = "done" /\ wk[w].exit = "return"
        /\ wk[w].passes >= 3
        /\ wk[w].tasks_total_executed # <<>>
        /\ options.execute_nr_wait_cycles > 0 /\ wk[w].wait_cycles = 0
        /\ wk[w].tasks_current # <<>>

\* C30: with keep-going, a task whose function raised is dropped from the
\* task list: it is on neither list of the next frontier (waiting, locked)
\* and not on the executed lists, it is on the frontier only until the pass
\* in which it failed ends or the loop is left, and the same execute_loop
\* call neither attempts nor executes it again, also when wait cycles
\* remain and its lock is free.
C30_FailedDropped ==
    \A w \in active : \A d \in wk[w].failed :
        options.execute_keep_going =>
            /\ d \notin Range(wk[w].tasks_waiting) \cup Range(wk[w].tasks_locked)
            /\ d \notin Range(wk[w].tasks_executed) \cup Range(wk[w].tasks_total_executed)
            /\ d \notin Range(wk[w].ran)
            /\ d \in Range(wk[w].tasks_ready) =>
                  \/ wk[w].pc \in {"pass_end", "done"}
                  \/ \E k \in 1..(wk[w].i - 1) : wk[w].tasks_ready[k] = d
                  \/ wk[w].tasks_ready[wk[w].i] = d /\ wk[w].pc = "finally"
            /\ d \in Range(wk[w].tasks_current) => d \in Range(wk[w].tasks_ready)

\* a later pass of the worker, with a wait cycle left and the lock of the
\* failed task free, has the failed task on none of its lists
C30_Witness ==
    \E w \in active : \E d \in wk[w].failed :
        /\ options.execute_keep_going
        /\ wk[w].pc \in {"classify", "ready_can_load", "lock"}
        /\ d \notin Range(wk[w].tasks_current)
        /\ wk[w].tasks_current # <<>>
        /\ wk[w].passes >= 2
        /\ locks[hash(d)] = PyNone /\ results[hash(d)] = PyNone

\* C31: when Task.run raises the hash-mismatch error of debug mode for a
\* task, the store holds no result entry of that task, so that no other
\* worker can load the result of a run that changed its arguments.
C31_MismatchNotStored ==
    \A w \in active :
        (wk[w].pc = "finally" /\ wk[w].check = "failed") =>
            /\ results[hash(Current(w))] = PyNone
            /\ blobs[hash(Current(w))] = PyNone

(***************************************************************************)
(* The execute command of a lone worker on a script without barrier and    *)
(* an empty store.                                                         *)
(***************************************************************************)
InitExecute ==
    /\ backend \in {"redis", "gcs"}
    /\ jugfile \in Scripts \cup {g \in GraphIds : Graphs[g] = Fork}
    /\ results = EmptyStore /\ blobs = EmptyStore
    /\ locks = EmptyStore /\ lockCreator = NoCreator
    /\ options \in BarrierOptions
    /\ active = {1}
    /\ wk = [w \in Workers |-> [InitWorker EXCEPT !.pc = "unborn"]]
    /\ executions = [h \in Hashes |-> 0]
    /\ cmd = ExecuteCmd

SpecExecute == InitExecute /\ [][ExecuteLoad \/ WorkerStep(1) \/ ExecuteAfterLoop]_vars

\* C32: when loading the script raises no barrier, the execute command
\* loads the script exactly once and runs exactly one execute_loop over the
\* registry, whatever execute_nr_wait_cycles >= 0 is configured, 0
\* included; a lone worker on an empty store executes every task of the
\* script.
C32_OneLoadOneLoop ==
    cmd.pc = "exited" =>
        /\ cmd.loads = 1 /\ cmd.passes = 1
        /\ \A t \in TaskSet : can_load(hash(t))

(***************************************************************************)
(* invalidate and its dry run on a store that holds results and locks of   *)
(* any hash, those of no task of the registry included.                    *)
(***************************************************************************)
InitFrame == InitSeeds /\ Graphs[jugfile] \in {Diamond, Twins, Alike}

\* client 1 dumps and invalidates, client 2 takes the lock of hash 2
NextFrame ==
    \/ \E h \in Hashes : StoreDump(1, h, 1)
    \/ StoreGet(2, 2)
    \/ \E p \in Patterns : Invalidate(1, p) \/ InvalidateDryRun(1, p)

SpecFrame == InitFrame /\ [][NextFrame]_vars

\* the task_counts a run that is not dry reports on this store: one for
\* each hash of invalid_tasks whose result key store.remove deletes
RemovedBy(p) == {h \in invalid_tasks(p) : results[h] # PyNone}

\* the dry run as a step
C33_DryStep ==
    cmd'.name = "invalidate_dry_run" =>
        /\ results' = results /\ blobs' = blobs
        /\ locks' = locks /\ lockCreator' = lockCreator
        /\ cmd'.counted = RemovedBy(cmd'.pattern)
        /\ \A n \in {alltasks[t].name : t \in TaskSet} :
              Cardinality({h \in cmd'.counted : \E t \in TaskSet : hash(t) = h /\ alltasks[t].name = n})
              = Cardinality({h \in invalid_tasks(cmd'.pattern) :
                               /\ can_load(h)
                               /\ \E t \in TaskSet : hash(t) = h /\ alltasks[t].name = n})

Named(p) ==
    IF Head(p) = "/" /\ p[Len(p)] = "/"
    THEN {t \in TaskSet : re_search(invalidate_re(p), alltasks[t].name)}
    ELSE IF \E k \in 1..Len(p) : p[k] = "."
    THEN {t \in TaskSet : alltasks[t].name = p}
    ELSE {t \in TaskSet : EndsWith(alltasks[t].name, <<".">> \o p)}

\* the step of an invalidate that is not a dry run
C34_Step ==
    cmd'.name = "invalidate" =>
        LET closure == {hash(t) : t \in Dependents(Named(cmd'.pattern))} IN
        /\ \A h \in Hashes \ closure : results'[h] = results[h] /\ blobs'[h] = blobs[h]
        /\ locks' = locks /\ lockCreator' = lockCreator
        /\ Named(cmd'.pattern) = {} => results' = results /\ blobs' = blobs

\* C34: invalidate deletes nothing outside the closure: the result entry
\* of every registry task that neither matches the pattern nor depends,
\* directly or transitively, also through Tasklets, on a matching task,
\* every result entry of a hash of no registry task and every lock entry
\* are unchanged; when no task name matches the store is unchanged.
C34_InvalidateFrame == [][C34_Step]_vars

(***************************************************************************)
(* The lock keys of one key-value service used by stores opened with       *)
(* different prefixes.  A prefix is the sequence of the path components of *)
(* the url; a lock key is "lock:" + prefix + "/" + name.  cmd.keys holds   *)
(* the lock keys of the service, cmd.before those before the last call.    *)
(***************************************************************************)
Prefixes == {<<"p">>, <<"q">>, <<"p", "q">>}

\* s starts with the path P
StartsWith(s, P) == Len(s) >= Len(P) /\ SubSeq(s, 1, Len(P)) = P

\* redis.keys(pattern) for the pattern remove_locks builds in a store of
\* prefix P: 'lock:*' in redis_store (line 141), redis_lock_key('*'), which
\* is "lock:" + P + "/*", in gcs_redis_store (line 183); '*' matches any
\* characters, '/' included
keys(P, all) ==
    IF backend = "redis" THEN all
    ELSE {k \in all : StartsWith(k.prefix, P)}

InitPrefix ==
    /\ backend \in {"redis", "gcs"}
    /\ jugfile \in {g \in GraphIds : Graphs[g] = Twins}
    /\ results = EmptyStore /\ blobs = EmptyStore
    /\ locks = EmptyStore /\ lockCreator = NoCreator
    /\ options = StoreOptions
    /\ active = {}
    /\ wk = [w \in Workers |-> InitWorker]
    /\ executions = [h \in Hashes |-> 0]
    /\ cmd = [pc |-> "idle", name |-> "", prefix |-> <<>>, keys |-> {}, before |-> {}]

\* getlock(name).get() through a store of prefix P
PrefixGet(P, n) ==
    /\ cmd' = [cmd EXCEPT !.name = "get", !.prefix = P, !.before = cmd.keys,
                          !.keys = @ \cup {[prefix |-> P, name |-> n]}]
    /\ UNCHANGED <<backend, jugfile, results, blobs, locks, lockCreator,
                   options, active, wk, executions>>

\* remove_locks() of a store of prefix P: DEL of every key of the listing
PrefixRemoveLocks(P) ==
    /\ cmd' = [cmd EXCEPT !.name = "remove_locks", !.prefix = P, !.before = cmd.keys,
                          !.keys = @ \ keys(P, cmd.keys)]
    /\ UNCHANGED <<backend, jugfile, results, blobs, locks, lockCreator,
                   options, active, wk, executions>>

SpecPrefix ==
    InitPrefix /\ [][\E P \in Prefixes : PrefixRemoveLocks(P) \/ \E n \in 1..2 : PrefixGet(P, n)]_vars

\* C35: remove_locks (and so cleanup with locks-only) of a store opened
\* with prefix P deletes only lock entries stored under prefix P: the lock
\* entries held through stores opened with another prefix on the same
\* service are unchanged.
C35_PrefixIsolation ==
    cmd.name = "remove_locks" =>
        \A k \in cmd.before : k.prefix # cmd.prefix => k \in cmd.keys

(***************************************************************************)
(* Aggressive unload (execute_task 225-226, Task.unload_recursive).        *)
(***************************************************************************)
\* the tasks whose value the execution of t demands, directly or through
\* the values of other tasks
RECURSIVE Cone(_)
Cone(S) ==
    LET more == S \cup UNION {DependsOn(t) : t \in S}
    IN IF more = S THEN S ELSE Cone(more)

\* two workers with aggressive unload, on the registries whose last task
\* takes its arguments from two other tasks
InitUnload ==
    /\ backend \in {"redis", "gcs"}
    /\ jugfile \in {g \in GraphIds : Graphs[g] \in {SliceHead, Twins}}
    /\ results = EmptyStore /\ blobs = EmptyStore
    /\ locks = EmptyStore /\ lockCreator = NoCreator
    /\ options \in {o \in ExecOptions : o.aggressive_unload}
    /\ active = Workers
    /\ wk = [w \in Workers |-> InitWorker]
    /\ executions = [h \in Hashes |-> 0]
    /\ cmd = IdleCmd

SpecUnload == InitUnload /\ [][NextExec]_vars

C36_Step ==
    \A w \in active :
        (/\ options.aggressive_unload
         /\ Len(wk'[w].tasks_executed) > Len(wk[w].tasks_executed))
        => LET t == Current(w) IN
           /\ \A j \in Cone({t}) : wk'[w].mem[j] = NoAttr
           /\ \A j \in Cone({t}) \ {t} :
                  /\ results'[hash(j)] = results[hash(j)]
                  /\ blobs'[hash(j)] = blobs[hash(j)]
           /\ results'[hash(t)] # PyNone

\* C36: with aggressive unload, after each successful execution of a task
\* t neither t nor any task of the dependency cone of t (through Tasks and
\* Tasklets) holds an in-memory result; the eviction changes no store
\* entry, so that every evicted task that was loadable stays loadable.
C36_ConeEvicted == [][C36_Step]_vars

(***************************************************************************)
(* CachedFunction (task.py 523-567): every process builds its own Task     *)
(* object t, kept in tasks_ready, and runs it without taking its lock.     *)
(***************************************************************************)
InitCached ==
    /\ backend \in {"redis", "gcs"}
    /\ jugfile \in {g \in GraphIds : Graphs[g] = Twins}
    /\ results = EmptyStore /\ blobs = EmptyStore
    /\ locks = EmptyStore /\ lockCreator = NoCreator
    /\ options \in {o \in ExecOptions : /\ o.execute_nr_wait_cycles = 0
                                        /\ ~o.execute_keep_going /\ ~o.aggressive_unload}
    /\ active \in {{1}, Workers}
    /\ wk \in {f \in [Workers -> {[InitWorker EXCEPT !.pc = "cached", !.tasks_ready = <<t>>] :
                                      t \in TaskSet}] :
                 \A w \in Workers \ active : f[w].tasks_ready = <<1>>}
    /\ executions = [h \in Hashes |-> 0]
    /\ cmd = IdleCmd

\* if not t.can_load(): if not t.can_run(): raise ValueError  (lines 563-565)
CachedCanLoad(w) ==
    LET r == wk[w]
        t == r.tasks_ready[r.i] IN
    /\ w \in active /\ r.pc = "cached"
    /\ Set(w, IF can_load(hash(t)) THEN [r EXCEPT !.pc = "value"]
              ELSE IF ~can_run(r.mem, t)
              THEN [r EXCEPT !.pc = "done", !.exit = "ValueError"]
              ELSE [r EXCEPT !.pc = "run"])
    /\ StoreUnchanged /\ ConfigUnchanged /\ UNCHANGED executions

\* return value(t)  (line 567): Task.value loads when there is no _result
CachedValue(w) ==
    LET r == wk[w]
        t == r.tasks_ready[r.i]
        got == load_all(<<t>>, r.mem) IN
    /\ w \in active /\ r.pc \in {"value", "finally"}
    /\ Set(w, IF r.raising # "" THEN [r EXCEPT !.pc = "done", !.exit = r.raising]
              ELSE IF ~got.ok
              THEN [r EXCEPT !.pc = "done", !.exit = "AssertionError", !.mem = got.mem]
              ELSE [r EXCEPT !.pc = "done", !.exit = "return", !.mem = got.mem])
    /\ StoreUnchanged /\ ConfigUnchanged /\ UNCHANGED executions

NextCached ==
    \E w \in Workers :
        \/ CachedCanLoad(w)
        \/ RunStart(w)
        \/ RunReturn(w)
        \/ DumpRedis(w)
        \/ DumpBlob(w)
        \/ DumpKey(w)
        \/ CachedValue(w)

SpecCached == InitCached /\ [][NextCached]_vars

\* C37: two processes that call CachedFunction(f, args) concurrently on a
\* store without a result for it execute f at most once in total.
C37_ExecutedOnce == \A w \in active : executions[hash(Current(w))] <= 1

(***************************************************************************)
(* invalidate run once, at any point of the run of an execute worker.      *)
(***************************************************************************)
InitRace ==
    /\ backend \in {"redis", "gcs"}
    /\ jugfile \in {g \in GraphIds : Graphs[g] \in {Diamond, Twins}}
    /\ results = EmptyStore /\ blobs = EmptyStore
    /\ locks = EmptyStore /\ lockCreator = NoCreator
    /\ options \in {o \in ExecOptions : ~o.execute_keep_going /\ ~o.aggressive_unload}
    /\ active = {1}
    /\ wk = [w \in Workers |-> InitWorker]
    /\ executions = [h \in Hashes |-> 0]
    /\ cmd = IdleCmd

RaceInvalidate(p) == cmd.name = "" /\ Invalidate(2, p)

NextRace == WorkerStep(1) \/ \E p \in Patterns : RaceInvalidate(p)

SpecRace == InitRace /\ [][NextRace]_vars

\* C38: in any interleaving of execute workers with invalidate, once
\* invalidate has returned and the workers have ended, the store holds no
\* result of a task of the invalidated closure that was computed from a
\* removed dependency value: no task of the closure is loadable while one of
\* the tasks it depends on, removed by the invalidation, has no result.
C38_NoStale ==
    (cmd.name = "invalidate" /\ AllDone) =>
        \A t \in Dependents(cmd.registry) :
            can_load(hash(t)) => \A j \in DependsOn(t) : can_load(hash(j))

(***************************************************************************)
(* utils.lazy_value, a generator under contextlib.contextmanager: the      *)
(* code before the yield runs on entry, the code after it when the body    *)
(* of the with statement ends normally; an exception of the body is        *)
(* thrown into the generator at the yield and leaves it there.             *)
(***************************************************************************)
\* the arguments handed to lazy_value: Tasks, alone or inside containers
LazyArgs ==
    { TaskArg(3), TaskArg(1), ListArg(<<TaskArg(1), TaskArg(3)>>),
      DictArg(<<TaskArg(2)>>), TupleArg(<<TaskArg(2), ConstArg(0)>>), ConstArg(0) }

\* tasks_for_value: the Tasks found in the value
tasks_for_value(a) == Range(value_tasks(a))

\* every task of the script has its result in the store; any of them may
\* be loaded in the memory of the process
InitLazy ==
    /\ backend \in {"redis", "gcs"}
    /\ jugfile \in {g \in GraphIds : Graphs[g] = Twins}
    /\ results = [h \in Hashes |-> IF h \notin HashesOf(TaskSet) THEN PyNone
                                    ELSE IF backend = "redis" THEN encode(PyInt(h))
                                    ELSE PyStr(h)]
    /\ blobs = [h \in Hashes |-> IF h \in HashesOf(TaskSet) /\ backend = "gcs"
                                  THEN encode(PyInt(h)) ELSE PyNone]
    /\ locks = EmptyStore /\ lockCreator = NoCreator
    /\ options = StoreOptions
    /\ active = {1}
    /\ \E L \in SUBSET TaskSet :
           wk = [w \in Workers |->
                   [InitWorker EXCEPT !.pc = "done",
                       !.mem = [t \in TaskIds |-> IF w = 1 /\ t \in L
                                                  THEN load(hash(t)) ELSE NoAttr]]]
    /\ executions = [h \in Hashes |-> 0]
    /\ cmd = [pc |-> "outside", arg |-> ConstArg(0), to_unload |-> {},
              loaded |-> {}, exit |-> ""]

LazyFrame ==
    UNCHANGED <<backend, jugfile, results, blobs, locks, lockCreator, options,
                active, executions>>

\* with lazy_value(a): the list to_unload, then value(a)  (lines 180-182)
LazyEnter(a) ==
    LET mem == wk[1].mem IN
    /\ cmd.pc \in {"outside", "exited"}
    /\ cmd' = [pc |-> "body", arg |-> a,
               to_unload |-> {t \in tasks_for_value(a) : mem[t] = NoAttr},
               loaded |-> {t \in TaskSet : mem[t] # NoAttr}, exit |-> ""]
    /\ Set(1, [wk[1] EXCEPT !.mem = load_all(value_tasks(a), mem).mem])
    /\ LazyFrame

\* the body ends normally: for t in to_unload: t.unload()  (lines 184-185)
LazyReturn ==
    /\ cmd.pc = "body"
    /\ cmd' = [cmd EXCEPT !.pc = "exited", !.exit = "return"]
    /\ Set(1, [wk[1] EXCEPT !.mem = [t \in TaskIds |-> IF t \in cmd.to_unload
                                                       THEN NoAttr ELSE @[t]]])
    /\ LazyFrame

\* the body raises: the generator is left at the yield of line 182
LazyRaise ==
    /\ cmd.pc = "body"
    /\ cmd' = [cmd EXCEPT !.pc = "exited", !.exit = "raise"]
    /\ UNCHANGED wk
    /\ LazyFrame

SpecLazy == InitLazy /\ [][LazyReturn \/ LazyRaise \/ \E a \in LazyArgs : LazyEnter(a)]_vars

\* C39: on exit from the lazy_value context, whether the body completes
\* normally or raises, every task reachable from the argument that was not
\* loaded on entry is unloaded again and every task that was loaded on
\* entry is still loaded.
C39_Restored ==
    cmd.pc = "exited" =>
        \A t \in TaskSet : (wk[1].mem[t] # NoAttr) <=> (t \in cmd.loaded)

(***************************************************************************)
(* encode.decompress_stream.  A byte of the decompressed payload is        *)
(* written as its position in the payload, nl holding the positions of     *)
(* the newline bytes; pos is the number of bytes the zlib object D has     *)
(* delivered so far.  D.decompress(buf, max_length) delivers the next      *)
(* bytes of the payload, at most max_length of them.                       *)
(***************************************************************************)
MaxPayload == 4

MaxBlock == 2

Min(a, b) == IF a <= b THEN a ELSE b

\* decompress_stream.read(nbytes)
read(s, nbytes) ==
    IF s.queue # <<>> /\ Len(s.queue) >= nbytes
    THEN [s |-> [s EXCEPT !.queue = SubSeq(@, nbytes + 1, Len(@))],
          res |-> SubSeq(s.queue, 1, nbytes)]
    ELSE LET m == Min(nbytes - Len(s.queue), cmd.size - s.pos)
             res == s.queue \o [i \in 1..m |-> s.pos + i]
         IN [s |-> [pos |-> s.pos + m, queue |-> <<>>, lastread |-> res],
             res |-> res]

\* decompress_stream.seek(offset, 1) with offset <= 0; lastread[skip:] with
\* Python's reading of a negative skip
seek(s, offset) ==
    IF offset >= 0 THEN s
    ELSE LET skip == Len(s.lastread) + offset
             first == IF skip >= 0 THEN skip
                      ELSE IF Len(s.lastread) + skip >= 0 THEN Len(s.lastread) + skip
                      ELSE 0
         IN [s EXCEPT !.queue = SubSeq(s.lastread, first + 1, Len(s.lastread))]

\* bytes.find(b'\n'), counted from 1, 0 standing for -1
find(b) ==
    IF \E i \in 1..Len(b) : b[i] \in cmd.nl
    THEN CHOOSE i \in 1..Len(b) : b[i] \in cmd.nl /\ \A j \in 1..(i - 1) : b[j] \notin cmd.nl
    ELSE 0

\* the while loop of readline (lines 209-220)
RECURSIVE readline_loop(_, _)
readline_loop(s, line) ==
    LET r == read(s, cmd.block)
        ln == find(r.res) IN
    IF r.res = <<>> THEN [s |-> r.s, res |-> line]
    ELSE IF ln = 0 THEN readline_loop(r.s, line \o r.res)
    ELSE [s |-> seek(r.s, ln - Len(r.res)), res |-> line \o SubSeq(r.res, 1, ln)]

\* decompress_stream.readline()
readline(s) ==
    LET qi == find(s.queue) IN
    IF qi > 0
    THEN [s |-> [s EXCEPT !.queue = SubSeq(@, qi + 1, Len(@))],
          res |-> SubSeq(s.queue, 1, qi)]
    ELSE readline_loop(s, <<>>)

\* a decompress_stream opened on a compressed payload; start and cursor
\* are the positions in the payload at which the caller stands before and
\* after the last call, stale tells that a seek followed a read that was
\* served from the queue
InitStream ==
    /\ backend = "redis"
    /\ jugfile \in {g \in GraphIds : Graphs[g] = Twins}
    /\ results = EmptyStore /\ blobs = EmptyStore
    /\ locks = EmptyStore /\ lockCreator = NoCreator
    /\ options = StoreOptions
    /\ active = {}
    /\ wk = [w \in Workers |-> InitWorker]
    /\ executions = [h \in Hashes |-> 0]
    /\ \E n \in 1..MaxPayload, nl \in SUBSET (1..MaxPayload), b \in 1..MaxBlock :
           /\ nl \subseteq 1..n
           /\ cmd = [size |-> n, nl |-> nl, block |-> b, op |-> "open",
                     s |-> [pos |-> 0, queue |-> <<>>, lastread |-> <<>>],
                     res |-> <<>>, served |-> "stream", start |-> 0, cursor |-> 0,
                     stale |-> FALSE]

StreamFrame ==
    UNCHANGED <<backend, jugfile, results, blobs, locks, lockCreator, options,
                active, wk, executions>>

StreamRead(n) ==
    LET r == read(cmd.s, n) IN
    /\ cmd' = [cmd EXCEPT !.op = "read", !.s = r.s, !.res = r.res,
                          !.served = IF cmd.s.queue # <<>> /\ Len(cmd.s.queue) >= n
                                     THEN "queue" ELSE "stream",
                          !.start = cmd.cursor, !.cursor = cmd.cursor + Len(r.res)]
    /\ StreamFrame

StreamReadline ==
    LET r == readline(cmd.s) IN
    /\ cmd' = [cmd EXCEPT !.op = "readline", !.s = r.s, !.res = r.res,
                          !.start = cmd.cursor, !.cursor = cmd.cursor + Len(r.res)]
    /\ StreamFrame

\* seek(-k, 1) right after a read, k at most the length of its result
StreamSeek(k) ==
    /\ cmd.op = "read" /\ k <= Len(cmd.res)
    /\ cmd' = [cmd EXCEPT !.op = "seek", !.s = seek(cmd.s, 0 - k),
                          !.start = cmd.cursor, !.cursor = cmd.cursor - k,
                          !.stale = @ \/ cmd.served = "queue"]
    /\ StreamFrame

NextStream ==
    \/ \E n \in 1..MaxPayload : StreamRead(n)
    \/ StreamReadline
    \/ \E k \in 1..MaxPayload : StreamSeek(k)

SpecStream == InitStream /\ [][NextStream]_vars

\* C40: for any payload and any sequence of read(n), readline() and
\* seek(-k, 1) calls in which each backward seek follows a read and has k
\* no larger than the length of that read's result, the bytes a read or
\* readline returns are the consecutive bytes of the decompressed payload
\* that start at the caller's position, a backward seek by k having moved
\* that position back by exactly k.
C40_InOrder ==
    cmd.op \in {"read", "readline"} =>
        cmd.res = [i \in 1..Len(cmd.res) |-> cmd.start + i]

====
